---- MODULE Spec2Model ----
(***************************************************************************)
(* Model of the multi-stream generation coordinator of the ChatPage view   *)
(* (src/src/pages/HomePage.tsx: ChatPage and AIService).                   *)
(*                                                                         *)
(* Text is modelled as a sequence of chunks; every chunk stands for a      *)
(* non-empty piece of text of a known length (TextLen), so that string     *)
(* concatenation is sequence concatenation and `content.length` is StrLen. *)
(*                                                                         *)
(* React state (results, isGenerating, isContinuing, completedIndexes) is  *)
(* committed by a render.  State updates issued from a user event handler  *)
(* are rendered before the handler's task ends; state updates issued from  *)
(* promise continuations and timers are batched in `queue` and committed   *)
(* by the separate Render step.  Every render runs the effects of the      *)
(* component: the cleanup effect (lines 221-236), the resultsRef effect    *)
(* (216-219) and the backup save effect (263-280).                         *)
(*                                                                         *)
(* Leaving the page and coming back unmounts the component and mounts a    *)
(* new instance of it (Remount).  Refs and React state belong to an        *)
(* instance; globalState, localStorage and the runs in flight do not.  A   *)
(* run keeps the closures of the instance that started it (owner): its     *)
(* state updates are dropped once that instance is unmounted.              *)
(***************************************************************************)
EXTENDS Integers, Sequences, FiniteSets, TLC

\* ---------------------------------------------------------------- bounds
totalCount == 2      \* number of streams per run (the page uses 8)
MaxRuns == 2         \* runs started in one behaviour
MaxDeltas == 2       \* (index, delta) events the backend sends in one run
MaxIdleSaves == 1    \* backup saves waiting for an idle period
MaxMounts == 2       \* instances of the component mounted in one behaviour
MaxLines == 2        \* complete lines in the body of a text stream

\* ------------------------------------------------------ program constants
LongThreshold == 100
\* the 300 ms of the throttle timer, in units of 100 ms
TimerDelay == 3

Indexes == 0 .. (totalCount - 1)
RunIds == 1 .. MaxRuns
NoRun == 0
MountIds == 1 .. MaxMounts

\* ------------------------------------------------------------------ text
\* "s" is a text of 1 character, "H" a text of 100 characters and "nn" the
\* two line feeds that handleContinueGenerate puts after the context
Deltas == {"s", "H"}
Separator == "nn"

TextLen(ch) == IF ch = "s" THEN 1 ELSE IF ch = "H" THEN 100 ELSE 2

RECURSIVE StrLen(_)
StrLen(str) == IF str = <<>> THEN 0 ELSE TextLen(Head(str)) + StrLen(Tail(str))

\* ------------------------------------------------------- result arrays
EmptyResults == [i \in {} |-> [content |-> <<>>, isLoading |-> FALSE]]

\* mutant of Placeholders: the placeholders carry text
PlaceholdersWithText == [i \in Indexes |-> [content |-> <<"s">>, isLoading |-> TRUE]]

Placeholders == [i \in Indexes |-> [content |-> <<>>, isLoading |-> TRUE]]

\* The item 'chatPageResults' of localStorage: absent, or a text; text tells
\* what the text is: "array" is the JSON of the array val, the other texts
\* are not the JSON of an array of results
NoSnapshot == [has |-> FALSE, val |-> EmptyResults, text |-> "none"]
Snapshot(v) == [has |-> TRUE, val |-> v, text |-> "array"]
\* text that JSON.parse rejects; the JSON `null`; the JSON `{}`; the JSON of
\* an array of totalCount nulls
OtherText(t) == [has |-> TRUE, val |-> EmptyResults, text |-> t]
OtherTexts == {"unparseable", "null", "object", "nulls"}

EmptyBuffer == [i \in {} |-> <<>>]
BufferSet(buf, index, content) ==
  [j \in (DOMAIN buf) \cup {index} |-> IF j = index THEN content ELSE buf[j]]

\* mutant of ApplyUpdates: the update is appended to the content
ApplyUpdatesAppend(prev, updates) ==
  [i \in DOMAIN prev |->
     IF i \in DOMAIN updates
       THEN [content |-> prev[i].content \o updates[i], isLoading |-> FALSE]
       ELSE prev[i]]

\* the setResults updater of flushUpdates
ApplyUpdates(prev, updates) ==
  [i \in DOMAIN prev |->
     IF i \in DOMAIN updates
       THEN [content |-> updates[i], isLoading |-> FALSE]
       ELSE prev[i]]

\* mutant of MarkAllLoaded: the isLoading flags are left as they are
MarkNoneLoaded(prev) == prev

\* the setResults updater of the catch block
MarkAllLoaded(prev) ==
  [i \in DOMAIN prev |-> [content |-> prev[i].content, isLoading |-> FALSE]]

\* mutant of StopUpdates: the buffered content is not applied
StopUpdatesNoContent(prev, updates) == MarkAllLoaded(prev)

\* the setResults updater of handleStopGenerate
StopUpdates(prev, updates) ==
  [i \in DOMAIN prev |->
     IF i \in DOMAIN updates
       THEN [content |-> updates[i], isLoading |-> FALSE]
       ELSE [content |-> prev[i].content, isLoading |-> FALSE]]

\* updateSessionStorage: merges the buffer into the stored snapshot
UpdateSessionStorage(st, buf) ==
  IF st.has /\ (DOMAIN buf) \cap (DOMAIN st.val) # {}
    THEN Snapshot(ApplyUpdates(st.val, buf))
    ELSE st

\* the delayed final save: resultsRef.current merged with the buffer
FinalResults(ref, buf) == ApplyUpdates(ref, buf)


\* ---------------------------------------------------------------- state
VARIABLES
  results,            \* React state `results` as committed by the last render
  isGenerating,       \* React state `isGenerating` (last render)
  isContinuing,       \* React state `isContinuing` (last render)
  completedIndexes,   \* React state `completedIndexes` (last render)
  queue,              \* state updates issued and not rendered yet
  mountId,            \* the mounted instance of the component
  resultsRef,         \* per instance: resultsRef.current
  globalIsGenerating, \* globalState.isGenerating
  abortController,    \* globalState.abortController (run that owns it)
  abortControllerRef, \* abortControllerRef.current of the mounted instance
  updateBuffer,       \* updateBuffer.current / globalState.updateBuffer
  updateTimeoutRef,   \* per instance: updateTimeoutRef.current (run whose
                      \* closure the timer holds)
  timerLive,          \* per instance: the timer named by updateTimeoutRef
                      \* is still scheduled
  store,              \* localStorage item 'chatPageResults'
  idleSaves,          \* backup saves scheduled by the [results] effect
  nRuns,              \* number of runs started so far
  runKind,            \* per run: "generate" or "continue"
  owner,              \* per run: the instance whose handler started it
  pc,                 \* per run: position of _executeGeneration / its caller
  aborted,            \* per run: controller.signal.aborted
  contentBuffers,     \* per run: contentBuffers of _executeGeneration
  contexts,           \* per run: contexts of handleContinueGenerate
  delivered,          \* per run: (index, delta) events received so far
  channel,            \* per run: state of its BroadcastChannel
  sent,               \* per run: messages posted on its BroadcastChannel
  totalTokenCount,    \* per run: totalTokenCount of _executeGeneration
  calls,              \* per run: the onProgress calls made so far
  partial,            \* per run: the carry-over of the last incomplete line
  body,               \* the text the backend sends to a run fed with text
  pos,                \* how much of body the reads have delivered
  now,                \* Date.now() - startTime, in ms
  timerAge,           \* per instance: how long the timer named by
                      \* updateTimeoutRef has been scheduled, in units of
                      \* 100 ms, up to TimerDelay
  load,               \* the branch the initializers of the mounted instance
                      \* took: "empty", "restored", "removed" or "threw"
                      \* (the page did not render)
  detail,             \* the DetailPage of the tab opened by handleOpenDetail
  elapsed,            \* stopwatches in the same unit, up to TimerDelay:
                      \* since the last flush of a non-empty update buffer
                      \* and since the last progress callback
  closeTimer,         \* per run: the 500 ms channel close timer is scheduled
  saveTimer,          \* per run: the 200 ms delayed final save is scheduled
  request             \* a call of AIService.generateMultipleResponses: its
                      \* arguments and, once built, the request it sends

vars == <<results, isGenerating, isContinuing, completedIndexes, queue,
          mountId, resultsRef, globalIsGenerating, abortController,
          abortControllerRef, updateBuffer, updateTimeoutRef, timerLive,
          store, idleSaves, nRuns, runKind, owner, pc, aborted,
          contentBuffers, contexts, delivered, channel, sent, closeTimer,
          saveTimer, totalTokenCount, calls, partial, body, pos, now,
          timerAge, elapsed, load, detail,
                 request>>

EmptyContents == [i \in Indexes |-> <<>>]

\* mutant of LoadResults: a saved array is reused whatever its length
LoadResultsAny(st) ==
  IF st.has /\ st.text = "array" THEN st.val ELSE EmptyResults

\* the results initializer: a saved snapshot of another length is removed
LoadResults(st) ==
  IF st.has /\ st.text = "array" /\ DOMAIN st.val = Indexes
    THEN st.val
    ELSE EmptyResults

StoreAfterLoad(st) ==
  IF st.has /\ (st.text = "object"
                \/ (st.text = "array" /\ DOMAIN st.val # Indexes))
    THEN NoSnapshot
    ELSE st

\* the branch the initializers take: JSON.parse and the reads of
\* parsed.length and of result.isLoading are not guarded
LoadOutcome(st) ==
  IF ~st.has THEN "empty"
  ELSE IF st.text \in {"unparseable", "null", "nulls"} THEN "threw"
  ELSE IF StoreAfterLoad(st) = NoSnapshot THEN "removed"
  ELSE "restored"

\* the completedIndexes initializer
LoadCompleted(st) ==
  IF st.has
    THEN {i \in DOMAIN st.val : ~st.val[i].isLoading /\ st.val[i].content # <<>>}
    ELSE {}

\* the hook state of a fresh instance
FreshQueue(res, comp) ==
  [results |-> res, isGenerating |-> FALSE, isContinuing |-> FALSE,
   completedIndexes |-> comp, store |-> NoSnapshot, dirty |-> FALSE,
   pending |-> FALSE]

\* DEFAULT_TEXT of the DetailPage
DefaultText == <<"none">>

\* no DetailPage is open
NoDetail == [phase |-> "closed", index |-> 0, textContent |-> DefaultText,
             isLiveUpdating |-> FALSE, inbox |-> <<>>]

\* ------------------------------------- AIService.generateMultipleResponses
\* An argument left out is Undefined (no number that is given is negative).
\* A string is a sequence of pieces of text; userMessage is a string or an
\* array of strings, and val holds the strings: the one string, or those
\* of the array.
Undefined == -1
DefaultCount == 24
PromptMaxTokens == 800
ArrayMaxTokens == 4000

StringMessage(str) == [isArray |-> FALSE, val |-> <<str>>]
ArrayMessage(arr) == [isArray |-> TRUE, val |-> arr]

\* the template literal of the initial generation: the i18n prefix and the
\* user's message between the role markers
PromptTemplate(userMessage) ==
  <<"User: ", "promptPrefix", "n">> \o userMessage
    \o <<"n", "n", "Assistant: <think>", "n", "</think>">>

\* the parameter default `count: number = 24`
CountOrDefault(count) == IF count = Undefined THEN DefaultCount ELSE count

\* the contents array: the array itself, or count copies of the prompt
Contents(userMessage, count) ==
  IF userMessage.isArray
    THEN userMessage.val
    ELSE [k \in 1 .. CountOrDefault(count) |->
            PromptTemplate(userMessage.val[1])]

ActualCount(userMessage, count) ==
  IF userMessage.isArray THEN Len(userMessage.val) ELSE CountOrDefault(count)

DefaultMaxTokens(userMessage) ==
  IF userMessage.isArray THEN ArrayMaxTokens ELSE PromptMaxTokens

\* mutant of FinalMaxTokens: `||` in place of `??`
FinalMaxTokensOr(userMessage, maxTokens) ==
  IF maxTokens = Undefined \/ maxTokens = 0
    THEN DefaultMaxTokens(userMessage)
    ELSE maxTokens

\* maxTokens ?? defaultMaxTokens
FinalMaxTokens(userMessage, maxTokens) ==
  IF maxTokens = Undefined THEN DefaultMaxTokens(userMessage) ELSE maxTokens

\* _executeGeneration up to its fetch: one content buffer per stream and
\* the body of the POST
ExecuteGeneration(contents, count, maxTokens) ==
  [contents |-> contents,
   max_tokens |-> maxTokens,
   contentBuffers |-> [i \in 0 .. (count - 1) |-> <<>>]]

GenerateMultipleResponses(userMessage, count, maxTokens) ==
  ExecuteGeneration(Contents(userMessage, count),
                    ActualCount(userMessage, count),
                    FinalMaxTokens(userMessage, maxTokens))

\* nothing sent yet
NoSends == [contents |-> <<>>, max_tokens |-> Undefined, contentBuffers |-> <<>>]

\* no call under study
NoRequest ==
  [state |-> "none", userMessage |-> ArrayMessage(<<>>), count |-> Undefined,
   maxTokens |-> Undefined, sends |-> NoSends]

\* a call with its arguments, not yet executed
Call3(userMessage, count, maxTokens) ==
  [state |-> "called", userMessage |-> userMessage, count |-> count,
   maxTokens |-> maxTokens, sends |-> NoSends]

\* the state after the first mount, with st in localStorage and a backend
\* that will send text
InitCall(st, text, call) ==
  /\ results = LoadResults(st)
  /\ isGenerating = FALSE
  /\ isContinuing = FALSE
  /\ completedIndexes = LoadCompleted(StoreAfterLoad(st))
  /\ queue = FreshQueue(results, completedIndexes)
  /\ mountId = 1
  /\ resultsRef = [m \in MountIds |-> IF m = 1 THEN results ELSE EmptyResults]
  /\ globalIsGenerating = FALSE
  /\ abortController = NoRun
  /\ abortControllerRef = NoRun
  /\ updateBuffer = EmptyBuffer
  /\ updateTimeoutRef = [m \in MountIds |-> NoRun]
  /\ timerLive = [m \in MountIds |-> FALSE]
  /\ store = StoreAfterLoad(st)
  /\ idleSaves = IF DOMAIN results # {} THEN <<results>> ELSE <<>>
  /\ nRuns = 0
  /\ runKind = [r \in RunIds |-> "none"]
  /\ owner = [r \in RunIds |-> 1]
  /\ pc = [r \in RunIds |-> "unused"]
  /\ aborted = [r \in RunIds |-> FALSE]
  /\ contentBuffers = [r \in RunIds |-> EmptyContents]
  /\ contexts = [r \in RunIds |-> EmptyContents]
  /\ delivered = [r \in RunIds |-> <<>>]
  /\ channel = [r \in RunIds |-> "none"]
  /\ sent = [r \in RunIds |-> <<>>]
  /\ closeTimer = [r \in RunIds |-> FALSE]
  /\ saveTimer = [r \in RunIds |-> FALSE]
  /\ totalTokenCount = [r \in RunIds |-> 0]
  /\ calls = [r \in RunIds |-> <<>>]
  /\ partial = [r \in RunIds |-> <<>>]
  /\ body = text
  /\ pos = 0
  /\ now = 0
  /\ timerAge = [m \in MountIds |-> 0]
  /\ elapsed = [flush |-> 0, update |-> 0]
  /\ load = LoadOutcome(st)
  /\ detail = NoDetail
  /\ request = call

\* the page with no call of the service under study
InitText(st, text) == InitCall(st, text, NoRequest)

InitWith(st) == InitText(st, <<>>)

\* first visit: nothing is saved
Init == InitWith(NoSnapshot)

\* ------------------------------------------------------------ broadcast
UpdateContent(i, c) == [type |-> "UPDATE_CONTENT", index |-> i, content |-> c]
GenerationComplete == [type |-> "GENERATION_COMPLETE", index |-> -1, content |-> <<>>]
GenerationError == [type |-> "GENERATION_ERROR", index |-> -1, content |-> <<>>]

\* the UPDATE_CONTENT messages of one flush, one per buffer entry
RECURSIVE UpdateMessages(_, _)
UpdateMessages(updates, i) ==
  IF i >= totalCount THEN <<>>
  ELSE (IF i \in DOMAIN updates THEN <<UpdateContent(i, updates[i])>> ELSE <<>>)
         \o UpdateMessages(updates, i + 1)

\* `sent` keeps, in posting order, the latest UPDATE_CONTENT of every index
\* and every terminal message: an UPDATE_CONTENT replaces the earlier one
\* of its index.
Post(log, msg) ==
  IF msg.type = "UPDATE_CONTENT"
    THEN Append(SelectSeq(log, LAMBDA m : ~(m.type = "UPDATE_CONTENT"
                                            /\ m.index = msg.index)), msg)
    ELSE Append(log, msg)

RECURSIVE PostAll(_, _)
PostAll(log, msgs) ==
  IF msgs = <<>> THEN log ELSE PostAll(Post(log, Head(msgs)), Tail(msgs))

\* postMessage on the channel of run r: fails once the channel is closed
PostMessage(log, r, msgs) ==
  IF channel[r] = "open" THEN PostAll(log, msgs) ELSE log

\* mutant of Broadcast: the newest message is delivered first
BroadcastNewestFirst(box, r, msgs, listening) ==
  IF channel[r] = "open" /\ listening THEN msgs \o box ELSE box

\* the channels of the same name that listen receive the messages, in order
Broadcast(box, r, msgs, listening) ==
  IF channel[r] = "open" /\ listening THEN box \o msgs ELSE box

\* ------------------------------------------------- the progress callback
\* A callback works on a record c of the pieces of state it can change:
\*   bufs (contentBuffers of the run), buf (updateBuffer), queue, store,
\*   ref / live (the throttle timer of the owner instance), sent (messages
\*   of the run's channel); mounted tells whether the owner is mounted.

\* a state update: dropped when the instance is unmounted
SetState(c, q) == IF c.mounted THEN [c EXCEPT !.queue = q] ELSE c

\* mutant of flushUpdates: nothing is posted on the channel
flushUpdatesSilent(c, r) ==
  IF DOMAIN c.buf # {}
    THEN LET newResults == ApplyUpdates(c.queue.results, c.buf)
         IN SetState([c EXCEPT !.watch.flush = 0], [c.queue EXCEPT !.results = newResults,
                                        !.store = Snapshot(newResults),
                                        !.dirty = TRUE,
                                        !.pending = TRUE])
    ELSE c

\* flushUpdates of run r (same code in handleGenerate and handleContinueGenerate)
flushUpdates(c, r) ==
  IF DOMAIN c.buf # {}
    THEN LET newResults == ApplyUpdates(c.queue.results, c.buf)
             posted == [c EXCEPT !.sent =
                          PostMessage(c.sent, r, UpdateMessages(c.buf, 0)),
                                 !.inbox =
                          Broadcast(c.inbox, r, UpdateMessages(c.buf, 0),
                                    c.listening),
                                 !.watch.flush = 0]
         IN SetState(posted, [c.queue EXCEPT !.results = newResults,
                                             !.store = Snapshot(newResults),
                                             !.dirty = TRUE,
                                             !.pending = TRUE])
    ELSE c

\* mutant of TimerBody: the flush empties the update buffer
TimerBodyClears(c, r) ==
  LET f == flushUpdates(c, r)
  IN IF runKind[r] = "generate"
       THEN [f EXCEPT !.store = UpdateSessionStorage(f.store, f.buf),
                      !.buf = EmptyBuffer]
       ELSE [f EXCEPT !.buf = EmptyBuffer]

\* what the throttle timer of run r runs when it fires
TimerBody(c, r) ==
  IF runKind[r] = "generate"
    THEN LET f == flushUpdates(c, r)
         IN [f EXCEPT !.store = UpdateSessionStorage(f.store, f.buf)]
    ELSE flushUpdates(c, r)

\* mutant of SetTimeout: a timer that is running is left running
SetTimeoutRunning(c, r) ==
  IF c.live THEN [c EXCEPT !.ref = r]
            ELSE [c EXCEPT !.ref = r, !.live = TRUE, !.age = 0]

\* clearTimeout of the pending timer, then setTimeout(..., 300) by run r
SetTimeout(c, r) == [c EXCEPT !.ref = r, !.live = TRUE, !.age = 0]

\* mutant of Schedule: every update waits for the throttle timer
ScheduleThrottled(c, r, content, isComplete) ==
  SetTimeout(c, r)

\* the part of both progress callbacks after the buffer was updated
Schedule(c, r, content, isComplete) ==
  IF StrLen(content) > LongThreshold \/ isComplete
    THEN TimerBody([c EXCEPT !.ref = NoRun, !.live = FALSE], r)
    ELSE SetTimeout(c, r)

\* the progress callback of handleGenerate
OnProgressGenerate(c, r, index, content, isComplete) ==
  LET c0 == SetState(c, [c.queue EXCEPT !.pending = TRUE,
                                        !.completedIndexes =
                                           IF isComplete THEN @ \cup {index} ELSE @])
      c1 == [c0 EXCEPT !.buf = BufferSet(c.buf, index, content),
                       !.watch.update = 0]
  IN Schedule(c1, r, content, isComplete)

\* mutant of OnProgressContinue: the context is not put before the content
OnProgressContinueBare(c, r, index, content, isComplete) ==
  LET c0 == SetState(c, [c.queue EXCEPT !.pending = TRUE,
                                        !.completedIndexes =
                                           IF isComplete THEN @ \cup {index} ELSE @])
      c1 == [c0 EXCEPT !.buf = BufferSet(c.buf, index, content),
                       !.watch.update = 0]
  IN Schedule(c1, r, content, isComplete)

\* the progress callback of handleContinueGenerate
OnProgressContinue(c, r, index, content, isComplete) ==
  LET newContent == contexts[r][index] \o <<Separator>> \o content
      c0 == SetState(c, [c.queue EXCEPT !.pending = TRUE,
                                        !.completedIndexes =
                                           IF isComplete THEN @ \cup {index} ELSE @])
      c1 == [c0 EXCEPT !.buf = BufferSet(c.buf, index, newContent),
                       !.watch.update = 0]
  IN Schedule(c1, r, content, isComplete)

onProgress(c, r, index, content, isComplete) ==
  IF runKind[r] = "generate"
    THEN OnProgressGenerate(c, r, index, content, isComplete)
    ELSE OnProgressContinue(c, r, index, content, isComplete)

\* mutant of TokenRate: the guard only excludes an elapsed time of 0
TokenRateUnguarded(total, elapsedMs) ==
  IF elapsedMs # 0
    THEN (2000 * total + elapsedMs) \div (2 * elapsedMs)
    ELSE 0

\* Math.round(totalTokenCount / elapsedSeconds) when time has passed
TokenRate(total, elapsedMs) ==
  IF elapsedMs > 0
    THEN (2000 * total + elapsedMs) \div (2 * elapsedMs)
    ELSE 0

\* one call of onProgress, as the caller sees it
Call(index, content, isComplete, tokenRate, totalTokens) ==
  [index |-> index, content |-> content, isComplete |-> isComplete,
   tokenRate |-> tokenRate, totalTokens |-> totalTokens]

\* mutant of Called: the call carries an empty content
CalledEmpty(c, index, content, isComplete) ==
  [c EXCEPT !.calls = Append(@, Call(index, <<>>, isComplete,
                                     TokenRate(c.total, now), c.total))]

\* the onProgress call, recorded with its arguments
Called(c, index, content, isComplete) ==
  [c EXCEPT !.calls = Append(@, Call(index, content, isComplete,
                                     TokenRate(c.total, now), c.total))]

\* mutant of Applies: an empty delta is applied too
AppliesEmpty(ev) == ev.index >= 0 /\ ev.index < totalCount

\* the guard of the choice loop: delta && index >= 0 && index < count
Applies(ev) == ev.delta # <<>> /\ ev.index >= 0 /\ ev.index < totalCount

\* mutant of ApplyChoice: the delta is put in front of the buffer
ApplyChoicePrepend(c, r, ev) ==
  IF Applies(ev)
    THEN LET c1 == [c EXCEPT !.bufs[ev.index] = ev.delta \o @,
                             !.total = @ + StrLen(ev.delta)]
         IN onProgress(Called(c1, ev.index, c1.bufs[ev.index], FALSE),
                       r, ev.index, c1.bufs[ev.index], FALSE)
    ELSE c

\* --------------------------------------------------- _executeGeneration
\* the choice loop: one (index, delta) event of a decoded frame
ApplyChoice(c, r, ev) ==
  IF Applies(ev)
    THEN LET c1 == [c EXCEPT !.bufs[ev.index] = @ \o ev.delta,
                             !.total = @ + StrLen(ev.delta)]
         IN onProgress(Called(c1, ev.index, c1.bufs[ev.index], FALSE),
                       r, ev.index, c1.bufs[ev.index], FALSE)
    ELSE c

RECURSIVE ApplyChoices(_, _, _)
ApplyChoices(c, r, events) ==
  IF events = <<>> THEN c
  ELSE ApplyChoices(ApplyChoice(c, r, Head(events)), r, Tail(events))

\* mutant of FinalCallbacks: a final callback for every index
RECURSIVE FinalCallbacksAll(_, _, _)
FinalCallbacksAll(c, r, i) ==
  IF i >= totalCount THEN c
  ELSE FinalCallbacksAll(
         onProgress(Called(c, i, c.bufs[i], TRUE), r, i, c.bufs[i], TRUE),
         r, i + 1)

\* the final results loop: one final callback per non-empty buffer
RECURSIVE FinalCallbacks(_, _, _)
FinalCallbacks(c, r, i) ==
  IF i >= totalCount THEN c
  ELSE FinalCallbacks(
         IF c.bufs[i] # <<>>
           THEN onProgress(Called(c, i, c.bufs[i], TRUE), r, i, c.bufs[i], TRUE)
           ELSE c,
         r, i + 1)

\* the callback record of run r in the current state
Cb(r) == [bufs |-> contentBuffers[r], buf |-> updateBuffer, queue |-> queue,
          store |-> store, ref |-> updateTimeoutRef[owner[r]],
          live |-> timerLive[owner[r]], sent |-> sent[r],
          mounted |-> owner[r] = mountId,
          total |-> totalTokenCount[r], calls |-> calls[r],
          age |-> timerAge[owner[r]], watch |-> elapsed,
          inbox |-> detail.inbox, listening |-> detail.phase = "listening"]

\* writes a callback record back into the state
Commit(c, r) ==
  /\ contentBuffers' = [contentBuffers EXCEPT ![r] = c.bufs]
  /\ updateBuffer' = c.buf
  /\ queue' = c.queue
  /\ store' = c.store
  /\ updateTimeoutRef' = [updateTimeoutRef EXCEPT ![owner[r]] = c.ref]
  /\ timerLive' = [timerLive EXCEPT ![owner[r]] = c.live]
  /\ sent' = [sent EXCEPT ![r] = c.sent]
  /\ totalTokenCount' = [totalTokenCount EXCEPT ![r] = c.total]
  /\ calls' = [calls EXCEPT ![r] = c.calls]
  /\ timerAge' = [timerAge EXCEPT ![owner[r]] = c.age]
  /\ elapsed' = c.watch
  /\ detail' = [detail EXCEPT !.inbox = c.inbox]


\* --------------------------------------------------------------- render
\* A render commits the queued state q (st is the store before the queued
\* updaters run) and then runs the effects of the component.
RenderWith(q, st) ==
  /\ (q.dirty /\ DOMAIN q.results # {}) => Len(idleSaves) < MaxIdleSaves
  /\ results' = q.results
  /\ isGenerating' = q.isGenerating
  /\ isContinuing' = q.isContinuing
  /\ completedIndexes' = q.completedIndexes
  /\ queue' = [q EXCEPT !.store = NoSnapshot, !.dirty = FALSE, !.pending = FALSE]
  \* the setResults updaters save their result while they run
  /\ store' = IF q.store.has THEN q.store ELSE st
  \* cleanup effect of the previous render (its closure has the old isGenerating)
  /\ timerLive' = [timerLive EXCEPT ![mountId] = FALSE]
  /\ globalIsGenerating' = isGenerating
  \* resultsRef effect and backup save effect, both on [results]
  /\ resultsRef' = [resultsRef EXCEPT ![mountId] = q.results]
  /\ idleSaves' = IF q.dirty /\ DOMAIN q.results # {}
                    THEN Append(idleSaves, q.results)
                    ELSE idleSaves

\* React renders the updates that promise continuations and timers queued
Render ==
  /\ queue.pending
  /\ RenderWith(queue, store)
  \* the cleanup effect also saves abortControllerRef.current
  /\ abortController' = abortControllerRef
  /\ UNCHANGED <<mountId, abortControllerRef, updateBuffer, updateTimeoutRef,
                 nRuns, runKind, owner, pc, aborted, contentBuffers, contexts,
                 delivered, channel, sent, closeTimer, saveTimer,
                 body, pos, now, partial, totalTokenCount, calls,
                 timerAge, elapsed, load, detail,
                 request>>

\* the idle callback of the backup save effect
IdleSave ==
  /\ idleSaves # <<>>
  /\ store' = Snapshot(Head(idleSaves))
  /\ idleSaves' = Tail(idleSaves)
  /\ UNCHANGED <<results, isGenerating, isContinuing, completedIndexes, queue,
                 mountId, resultsRef, globalIsGenerating, abortController,
                 abortControllerRef, updateBuffer, updateTimeoutRef, timerLive,
                 nRuns, runKind, owner, pc, aborted, contentBuffers, contexts,
                 delivered, channel, sent, closeTimer, saveTimer,
                 body, pos, now, partial, totalTokenCount, calls,
                 timerAge, elapsed, load, detail,
                 request>>

\* mutant of AbortRegistered: the registered controller is not aborted
AbortNothing == aborted

\* controller.abort() on the registered controller, if any
AbortRegistered ==
  IF abortController # NoRun
    THEN [aborted EXCEPT ![abortController] = TRUE]
    ELSE aborted

\* ------------------------------------------------------- user handlers
\* handleGenerate up to its first suspension (the fetch), then the render
HandleGenerate ==
  /\ load # "threw"
  /\ nRuns < MaxRuns
  /\ LET r == nRuns + 1
         q == [queue EXCEPT !.isGenerating = TRUE,
                            !.completedIndexes = {},
                            !.results = Placeholders,
                            !.dirty = TRUE,
                            !.pending = TRUE]
     IN /\ aborted' = AbortRegistered
        /\ abortController' = r
        /\ abortControllerRef' = r
        /\ nRuns' = r
        /\ runKind' = [runKind EXCEPT ![r] = "generate"]
        /\ owner' = [owner EXCEPT ![r] = mountId]
        /\ channel' = [channel EXCEPT ![r] = "open"]
        /\ pc' = [pc EXCEPT ![r] = "fetch"]
        /\ contentBuffers' = [contentBuffers EXCEPT ![r] = EmptyContents]
        \* localStorage.removeItem, then the render
        /\ RenderWith(q, NoSnapshot)
  /\ UNCHANGED <<mountId, updateBuffer, updateTimeoutRef, contexts, delivered,
                 sent, closeTimer, saveTimer,
                 body, pos, now, partial, totalTokenCount, calls,
                 timerAge, elapsed, load, detail,
                 request>>

\* handleStopGenerate (the stop button is shown while generating or
\* continuing), then the render
HandleStopGenerate ==
  /\ load # "threw"
  /\ isGenerating \/ isContinuing
  /\ LET newResults == IF DOMAIN updateBuffer # {}
                         THEN StopUpdates(queue.results, updateBuffer)
                         ELSE MarkAllLoaded(queue.results)
         q == [queue EXCEPT !.results = newResults,
                            !.store = Snapshot(newResults),
                            !.isGenerating = FALSE,
                            !.dirty = TRUE,
                            !.pending = TRUE]
     IN /\ aborted' = AbortRegistered
        /\ abortController' = NoRun
        /\ abortControllerRef' =
             IF abortController # NoRun THEN NoRun ELSE abortControllerRef
        /\ updateTimeoutRef' = [updateTimeoutRef EXCEPT ![mountId] = NoRun]
        /\ RenderWith(q, store)
  /\ UNCHANGED <<mountId, updateBuffer, nRuns, runKind, owner, pc,
                 contentBuffers, contexts, delivered, channel, sent,
                 closeTimer, saveTimer,
                 body, pos, now, partial, totalTokenCount, calls,
                 timerAge, elapsed, load, detail,
                 request>>

\* handleContinueGenerate (the continue button is shown when nothing runs
\* and every index is completed), then the render
HandleContinueGenerate ==
  /\ load # "threw"
  /\ ~isGenerating /\ ~isContinuing
  /\ Cardinality(completedIndexes) = totalCount
  /\ \E i \in DOMAIN results : results[i].content # <<>> /\ ~results[i].isLoading
  /\ nRuns < MaxRuns
  /\ LET r == nRuns + 1
         q == [queue EXCEPT !.isContinuing = TRUE, !.pending = TRUE]
     IN /\ contexts' = [contexts EXCEPT ![r] =
                          [i \in Indexes |-> IF i \in DOMAIN results
                                               THEN results[i].content
                                               ELSE <<>>]]
        /\ abortController' = r
        /\ abortControllerRef' = r
        /\ nRuns' = r
        /\ runKind' = [runKind EXCEPT ![r] = "continue"]
        /\ owner' = [owner EXCEPT ![r] = mountId]
        /\ channel' = [channel EXCEPT ![r] = "open"]
        /\ pc' = [pc EXCEPT ![r] = "fetch"]
        /\ contentBuffers' = [contentBuffers EXCEPT ![r] = EmptyContents]
        /\ RenderWith(q, store)
  /\ UNCHANGED <<mountId, updateBuffer, updateTimeoutRef, aborted, delivered,
                 sent, closeTimer, saveTimer,
                 body, pos, now, partial, totalTokenCount, calls,
                 timerAge, elapsed, load, detail,
                 request>>


\* ------------------------------------------------------------ run steps
\* what the backend sends to the page: 100 characters at a time
Events == [index : Indexes, delta : {<<"H">>}]

\* what a backend can send: also indexes out of range and empty deltas
StreamEvents == [index : -1 .. totalCount,
                 delta : {<<>>} \cup {<<d>> : d \in Deltas}]

\* the frames of one read: at least one event, within the run's budget
Chunks(evs, n) == UNION {[1 .. k -> evs] : k \in 1 .. n}

Running(r) == pc[r] \in {"fetch", "read"}

\* mutant of Finally: the flag is cleared whoever holds the controller
FinallyAlways(c, r) ==
  IF runKind[r] = "generate"
    THEN SetState(c, [c.queue EXCEPT !.isGenerating = FALSE,
                                     !.pending = TRUE])
    ELSE SetState(c, [c.queue EXCEPT !.isContinuing = FALSE,
                                     !.pending = TRUE])

\* the finally block of both handlers
Finally(c, r) ==
  IF abortController = r
    THEN IF runKind[r] = "generate"
           THEN SetState(c, [c.queue EXCEPT !.isGenerating = FALSE,
                                            !.pending = TRUE])
           ELSE SetState(c, [c.queue EXCEPT !.isContinuing = FALSE,
                                            !.pending = TRUE])
    ELSE c

FinallyGlobals(r) ==
  /\ abortController' = IF abortController = r THEN NoRun ELSE abortController
  /\ abortControllerRef' =
       IF abortController = r /\ owner[r] = mountId
         THEN NoRun
         ELSE abortControllerRef
  /\ globalIsGenerating' =
       IF abortController = r /\ runKind[r] = "generate"
         THEN FALSE
         ELSE globalIsGenerating

\* fetch resolves with a successful response that has a body
FetchResponds(r) ==
  /\ pc[r] = "fetch" /\ ~aborted[r]
  /\ pc' = [pc EXCEPT ![r] = "read"]
  /\ UNCHANGED <<results, isGenerating, isContinuing, completedIndexes, queue,
                 mountId, resultsRef, globalIsGenerating, abortController,
                 abortControllerRef, updateBuffer, updateTimeoutRef, timerLive,
                 store, idleSaves, nRuns, runKind, owner, aborted,
                 contentBuffers, contexts, delivered, channel, sent,
                 closeTimer, saveTimer,
                 body, pos, now, partial, totalTokenCount, calls,
                 timerAge, elapsed, load, detail,
                 request>>

\* reader.read() resolves with a chunk: the line loop and the choice loop
ReadFrom(r, evs) ==
  /\ pc[r] = "read" /\ ~aborted[r]
  /\ Len(delivered[r]) < MaxDeltas
  /\ \E events \in Chunks(evs, MaxDeltas - Len(delivered[r])) :
       /\ Commit(ApplyChoices(Cb(r), r, events), r)
       /\ delivered' = [delivered EXCEPT ![r] = @ \o events]
  /\ UNCHANGED <<results, isGenerating, isContinuing, completedIndexes,
                 mountId, resultsRef, globalIsGenerating, abortController,
                 abortControllerRef, idleSaves, nRuns, runKind, owner, pc,
                 aborted, contexts, channel, closeTimer, saveTimer,
                 body, pos, now, partial, load,
                 request>>

ReadChunk(r) == ReadFrom(r, Events)

\* ---------------------------------------------------------- the SSE text
\* Text on the wire is a sequence of pieces: "n" is the line feed, " " is
\* white space, "da" followed by "ta: " is the prefix `data: `, "[DONE]" is
\* the end marker, "{a" "a}" and "{b" "b}" are the two halves of two JSON
\* documents and "{}" is a JSON document without choices.
JsonA == <<"{a", "a}">>
JsonB == <<"{b", "b}">>
JsonEmpty == <<"{}">>

Choice(i, d) == [index |-> i, delta |-> d]

\* mutant of JsonParse: a truncated document is repaired
JsonParseLenient(data) ==
  IF data = JsonA \/ data = <<"{a">>
    THEN [ok |-> TRUE, choices |-> <<Choice(0, <<"s">>)>>]
    ELSE [ok |-> FALSE, choices |-> <<>>]

\* JSON.parse: the choices of the document, or a SyntaxError
JsonParse(data) ==
  IF data = JsonA
    THEN [ok |-> TRUE, choices |-> <<Choice(0, <<"s">>)>>]
  ELSE IF data = JsonB
    THEN [ok |-> TRUE,
          choices |-> <<Choice(-1, <<"s">>), Choice(totalCount, <<"s">>),
                        Choice(0, <<>>), Choice(1, <<"H">>)>>]
  ELSE IF data = JsonEmpty
    THEN [ok |-> TRUE, choices |-> <<>>]
  ELSE [ok |-> FALSE, choices |-> <<>>]

\* partial.split('\n')
RECURSIVE Split(_)
Split(text) ==
  IF \A k \in 1 .. Len(text) : text[k] # "n"
    THEN <<text>>
    ELSE LET i == CHOOSE k \in 1 .. Len(text) :
                    text[k] = "n" /\ \A j \in 1 .. (k - 1) : text[j] # "n"
         IN <<SubSeq(text, 1, i - 1)>> \o Split(SubSeq(text, i + 1, Len(text)))

\* String.prototype.trim
RECURSIVE Trim(_)
Trim(str) ==
  IF str # <<>> /\ Head(str) = " " THEN Trim(Tail(str))
  ELSE IF str # <<>> /\ str[Len(str)] = " "
    THEN Trim(SubSeq(str, 1, Len(str) - 1))
  ELSE str

\* mutant of StartsWithData: any six characters pass for the prefix
StartsWithAny(line) == Len(line) >= 2

\* line.startsWith('data: ')
StartsWithData(line) == Len(line) >= 2 /\ line[1] = "da" /\ line[2] = "ta: "

\* the choices that the line loop hands to the choice loop for one line
LineChoices(line) ==
  IF ~StartsWithData(line) THEN <<>>
  ELSE LET data == Trim(SubSeq(line, 3, Len(line)))
       IN IF data = <<"[DONE]">> THEN <<>>
          ELSE IF JsonParse(data).ok THEN JsonParse(data).choices
          ELSE <<>>

RECURSIVE LinesChoices(_)
LinesChoices(lines) ==
  IF lines = <<>> THEN <<>>
  ELSE LineChoices(Head(lines)) \o LinesChoices(Tail(lines))

\* mutant of CarryOver: the incomplete line is dropped
CarryOverDropped(lines) == <<>>

\* lines.pop() || ''
CarryOver(lines) == lines[Len(lines)]

\* the lines left after lines.pop()
CompleteLines(lines) == SubSeq(lines, 1, Len(lines) - 1)

\* the lines a backend sends
LineKinds ==
  { <<"da", "ta: ">> \o JsonA,
    <<"da", "ta: ", " ">> \o JsonB \o <<" ">>,
    <<"da", "ta: ", "{a">>,
    <<"da", "ta: ", " ", "[DONE]", " ">>,
    <<"da", "ta: ">> \o JsonEmpty,
    <<"ev", "ent: ">> \o JsonA,
    <<>> }

\* a body ends with a complete line or with an unterminated one
Tails == { <<>>, <<"da", "ta: ">> \o JsonA }

RECURSIVE Join(_)
Join(lines) ==
  IF lines = <<>> THEN <<>> ELSE Head(lines) \o <<"n">> \o Join(Tail(lines))

Bodies ==
  { Join(ls) \o t : ls \in UNION {[1 .. k -> LineKinds] : k \in 0 .. MaxLines},
                    t \in Tails }

ClockValues == {-500, 0, 500}

\* reader.read() resolves with a chunk of the body: decode, split, line
\* loop and choice loop
ReadBytes(r) ==
  /\ pc[r] = "read" /\ ~aborted[r]
  /\ pos < Len(body)
  /\ \E k \in 1 .. (Len(body) - pos) :
       LET lines == Split(partial[r] \o SubSeq(body, pos + 1, pos + k))
           events == LinesChoices(CompleteLines(lines))
       IN /\ Commit(ApplyChoices(Cb(r), r, events), r)
          /\ delivered' = [delivered EXCEPT ![r] = @ \o events]
          /\ partial' = [partial EXCEPT ![r] = CarryOver(lines)]
          /\ pos' = pos + k
  /\ UNCHANGED <<results, isGenerating, isContinuing, completedIndexes,
                 mountId, resultsRef, globalIsGenerating, abortController,
                 abortControllerRef, idleSaves, nRuns, runKind, owner, pc,
                 aborted, contexts, channel, closeTimer, saveTimer, body, now, load,
                 request>>

\* time passes (or the clock is set)
Tick ==
  /\ \E t \in ClockValues : t # now /\ now' = t
  /\ UNCHANGED <<results, isGenerating, isContinuing, completedIndexes, queue,
                 mountId, resultsRef, globalIsGenerating, abortController,
                 abortControllerRef, updateBuffer, updateTimeoutRef, timerLive,
                 store, idleSaves, nRuns, runKind, owner, pc, aborted,
                 contentBuffers, contexts, delivered, channel, sent,
                 closeTimer, saveTimer, totalTokenCount, calls, partial, body,
                 pos, timerAge, elapsed, load, detail,
                 request>>

\* mutant of CompletionPath: the error message is posted as well
CompletionPathBoth(c, r) ==
  LET f == TimerBody([c EXCEPT !.live = FALSE], r)
  IN Finally([f EXCEPT !.sent = PostMessage(f.sent, r, <<GenerationComplete,
                                                          GenerationError>>),
                       !.inbox = Broadcast(f.inbox, r, <<GenerationComplete,
                                                         GenerationError>>,
                                           f.listening)],
             r)

\* the code after the await, when generateMultipleResponses returned
CompletionPath(c, r) ==
  LET f == TimerBody([c EXCEPT !.live = FALSE], r)
  IN Finally([f EXCEPT !.sent = PostMessage(f.sent, r, <<GenerationComplete>>),
                       !.inbox = Broadcast(f.inbox, r, <<GenerationComplete>>,
                                           f.listening)],
             r)

\* reader.read() resolves with done: final callbacks, return, completion
StreamEnds(r) ==
  /\ pc[r] = "read" /\ ~aborted[r]
  /\ pos = Len(body)
  /\ Commit(CompletionPath(FinalCallbacks(Cb(r), r, 0), r), r)
  /\ FinallyGlobals(r)
  /\ pc' = [pc EXCEPT ![r] = "completed"]
  /\ saveTimer' = [saveTimer EXCEPT ![r] = TRUE]
  /\ closeTimer' = [closeTimer EXCEPT ![r] = TRUE]
  /\ UNCHANGED <<results, isGenerating, isContinuing, completedIndexes,
                 mountId, resultsRef, idleSaves, nRuns, runKind, owner,
                 aborted, contexts, delivered, channel,
                 body, pos, now, partial, load,
                 request>>

\* mutant of CatchPath: the content is cleared with the isLoading flags
CatchPathClears(c, r) ==
  LET c1 == SetState(c, [c.queue EXCEPT
                           !.results = [i \in DOMAIN @ |->
                                          [content |-> <<>>, isLoading |-> FALSE]],
                           !.dirty = TRUE,
                           !.pending = TRUE])
  IN Finally([c1 EXCEPT !.sent = PostMessage(c1.sent, r, <<GenerationError>>),
                        !.inbox = Broadcast(c1.inbox, r, <<GenerationError>>,
                                            c1.listening)],
             r)

\* the catch block of the handler that started run r
CatchPath(c, r) ==
  LET c1 == IF runKind[r] = "generate"
              THEN SetState(c, [c.queue EXCEPT !.results = MarkAllLoaded(@),
                                               !.dirty = TRUE,
                                               !.pending = TRUE])
              ELSE c
  IN Finally([c1 EXCEPT !.sent = PostMessage(c1.sent, r, <<GenerationError>>),
                        !.inbox = Broadcast(c1.inbox, r, <<GenerationError>>,
                                            c1.listening)],
             r)

Throws(r, outcome) ==
  /\ Commit(CatchPath(Cb(r), r), r)
  /\ FinallyGlobals(r)
  /\ pc' = [pc EXCEPT ![r] = outcome]
  /\ closeTimer' = [closeTimer EXCEPT ![r] = TRUE]
  /\ UNCHANGED <<results, isGenerating, isContinuing, completedIndexes,
                 mountId, resultsRef, idleSaves, nRuns, runKind, owner,
                 aborted, contexts, delivered, channel, saveTimer,
                 body, pos, now, partial, load,
                 request>>

\* non-success status, missing body, network or read error
TransportFails(r) ==
  /\ Running(r) /\ ~aborted[r]
  /\ Throws(r, "failed")

\* the pending fetch or read rejects with AbortError
AbortRejects(r) ==
  /\ Running(r) /\ aborted[r]
  /\ Throws(r, "aborted")

\* --------------------------------------------------------------- timers
\* the 300 ms throttle timer fires
TimerFires(m) ==
  /\ timerLive[m]
  /\ LET r == updateTimeoutRef[m]
     IN Commit(TimerBody([Cb(r) EXCEPT !.live = FALSE], r), r)
  /\ UNCHANGED <<results, isGenerating, isContinuing, completedIndexes,
                 mountId, resultsRef, globalIsGenerating, abortController,
                 abortControllerRef, idleSaves, nRuns, runKind, owner, pc,
                 aborted, contexts, delivered, channel, closeTimer, saveTimer,
                 body, pos, now, partial, load,
                 request>>

\* no earlier than 300 ms after setTimeout; how much later is not modelled
UpdateTimeout == \E m \in MountIds : TimerFires(m)

\* the timer fires once its 300 ms have passed
TimerExpires == \E m \in MountIds : timerAge[m] = TimerDelay /\ TimerFires(m)

Later(t) == IF t < TimerDelay THEN t + 1 ELSE t

\* 100 ms pass; React has rendered the queued updates and the idle
\* callbacks (timeout 100 ms) have run by then
TimePasses ==
  /\ ~queue.pending
  /\ idleSaves = <<>>
  /\ timerAge' = [m \in MountIds |->
                    IF timerLive[m] THEN Later(timerAge[m]) ELSE timerAge[m]]
  /\ elapsed' = [flush |-> Later(elapsed.flush),
                 update |-> Later(elapsed.update)]
  /\ UNCHANGED <<results, isGenerating, isContinuing, completedIndexes, queue,
                 mountId, resultsRef, globalIsGenerating, abortController,
                 abortControllerRef, updateBuffer, updateTimeoutRef, timerLive,
                 store, idleSaves, nRuns, runKind, owner, pc, aborted,
                 contentBuffers, contexts, delivered, channel, sent,
                 closeTimer, saveTimer, totalTokenCount, calls, partial, body,
                 pos, now, load, detail,
                 request>>

\* the 200 ms delayed final save of a completed run
DelayedFinalSave(r) ==
  /\ saveTimer[r]
  /\ saveTimer' = [saveTimer EXCEPT ![r] = FALSE]
  /\ store' = Snapshot(FinalResults(resultsRef[owner[r]], updateBuffer))
  /\ UNCHANGED <<results, isGenerating, isContinuing, completedIndexes, queue,
                 mountId, resultsRef, globalIsGenerating, abortController,
                 abortControllerRef, updateBuffer, updateTimeoutRef, timerLive,
                 idleSaves, nRuns, runKind, owner, pc, aborted, contentBuffers,
                 contexts, delivered, channel, sent, closeTimer,
                 body, pos, now, partial, totalTokenCount, calls,
                 timerAge, elapsed, load, detail,
                 request>>

\* the 500 ms timer closes the channel (after the 200 ms timer set with it);
\* the run has returned by then: its locals and its channel are released
CloseChannel(r) ==
  /\ closeTimer[r] /\ ~saveTimer[r]
  /\ closeTimer' = [closeTimer EXCEPT ![r] = FALSE]
  /\ channel' = [channel EXCEPT ![r] = "closed"]
  /\ contentBuffers' = [contentBuffers EXCEPT ![r] = EmptyContents]
  /\ contexts' = [contexts EXCEPT ![r] = EmptyContents]
  /\ delivered' = [delivered EXCEPT ![r] = <<>>]
  /\ sent' = [sent EXCEPT ![r] = <<>>]
  /\ totalTokenCount' = [totalTokenCount EXCEPT ![r] = 0]
  /\ calls' = [calls EXCEPT ![r] = <<>>]
  /\ partial' = [partial EXCEPT ![r] = <<>>]
  /\ UNCHANGED <<results, isGenerating, isContinuing, completedIndexes, queue,
                 mountId, resultsRef, globalIsGenerating, abortController,
                 abortControllerRef, updateBuffer, updateTimeoutRef, timerLive,
                 store, idleSaves, nRuns, runKind, owner, pc, aborted,
                 saveTimer, body, pos, now, timerAge, elapsed, load, detail,
                 request>>

\* ----------------------------------------------------------- navigation
\* handleBackToHome, then the user comes back to the chat page: the mounted
\* instance is unmounted (its cleanup effect runs) and a new instance is
\* mounted (initializers, mount effect and its re-render, other effects).
\* The round trip takes longer than the pending render and the 100 ms
\* timeout of the idle callbacks.
Remount ==
  /\ load # "threw"
  /\ mountId < MaxMounts
  /\ ~queue.pending
  /\ idleSaves = <<>>
  /\ mountId' = mountId + 1
  \* cleanup of the old instance
  /\ timerLive' = [timerLive EXCEPT ![mountId] = FALSE]
  /\ abortController' = abortControllerRef
  \* initializers of the new instance
  /\ results' = LoadResults(store)
  /\ store' = StoreAfterLoad(store)
  /\ load' = LoadOutcome(store)
  /\ completedIndexes' = LoadCompleted(store')
  /\ isContinuing' = FALSE
  \* the mount effect restores isGenerating from globalState, where the
  \* cleanup had saved it; the cleanup of the re-render saves the FALSE of
  \* the first render
  /\ isGenerating' = isGenerating
  /\ globalIsGenerating' = FALSE
  /\ UNCHANGED abortControllerRef
  /\ queue' = [FreshQueue(results', completedIndexes') EXCEPT
                 !.isGenerating = isGenerating]
  /\ resultsRef' = [resultsRef EXCEPT ![mountId + 1] = results']
  /\ idleSaves' = IF DOMAIN results' # {}
                    THEN Append(idleSaves, results')
                    ELSE idleSaves
  /\ UNCHANGED <<updateBuffer, updateTimeoutRef, nRuns, runKind, owner, pc,
                 aborted, contentBuffers, contexts, delivered, channel, sent,
                 closeTimer, saveTimer,
                 body, pos, now, partial, totalTokenCount, calls,
                 timerAge, elapsed, detail, request>>

\* ------------------------------------------------------ the detail page
\* mutant of OpenDetailResults: the update buffer is not merged
OpenDetailResultsOnly(res, buf) == res

\* what handleOpenDetail saves: the results of the last render, with the
\* content of the update buffer where it has some
OpenDetailResults(res, buf) ==
  [i \in DOMAIN res |->
     IF i \in DOMAIN buf /\ buf[i] # <<>>
       THEN [content |-> buf[i], isLoading |-> FALSE]
       ELSE res[i]]

\* handleOpenDetail(i): the forced save, then window.open of a new tab
HandleOpenDetail(i) ==
  /\ load # "threw"
  /\ detail.phase = "closed"
  /\ i \in DOMAIN results /\ ~results[i].isLoading
  /\ store' = Snapshot(OpenDetailResults(results, updateBuffer))
  /\ detail' = [NoDetail EXCEPT !.phase = "opening", !.index = i]
  /\ UNCHANGED <<results, isGenerating, isContinuing, completedIndexes, queue,
                 mountId, resultsRef, globalIsGenerating, abortController,
                 abortControllerRef, updateBuffer, updateTimeoutRef, timerLive,
                 idleSaves, nRuns, runKind, owner, pc, aborted, contentBuffers,
                 contexts, delivered, channel, sent, closeTimer, saveTimer,
                 totalTokenCount, calls, partial, body, pos, now,
                 timerAge, elapsed, load,
                 request>>

\* the initialText initializer of the DetailPage: the new tab has no
\* __chatPageGlobalState of its own, so only localStorage can give content
InitialText(st, i) ==
  IF st.has /\ st.text = "array" /\ i \in DOMAIN st.val
       /\ st.val[i].content # <<>>
    THEN st.val[i].content
    ELSE DefaultText

DetailUnchanged ==
  UNCHANGED <<results, isGenerating, isContinuing, completedIndexes, queue,
              mountId, resultsRef, globalIsGenerating, abortController,
              abortControllerRef, updateBuffer, updateTimeoutRef, timerLive,
              store, idleSaves, nRuns, runKind, owner, pc, aborted,
              contentBuffers, contexts, delivered, channel, sent, closeTimer,
              saveTimer, totalTokenCount, calls, partial, body, pos, now,
              timerAge, elapsed, load,
                 request>>

\* the new tab has loaded: first render of the DetailPage
DetailRenders ==
  /\ detail.phase = "opening"
  /\ detail' = [detail EXCEPT !.phase = "rendered",
                              !.textContent = InitialText(store, detail.index)]
  /\ DetailUnchanged

\* the BroadcastChannel effect of the DetailPage, after the first render
DetailListens ==
  /\ detail.phase = "rendered"
  /\ detail' = [detail EXCEPT !.phase = "listening"]
  /\ DetailUnchanged

\* channel.onmessage of the DetailPage
OnMessage(d, msg) ==
  IF msg.index # d.index THEN d
  ELSE IF msg.type = "UPDATE_CONTENT" /\ msg.content # <<>>
    THEN [d EXCEPT !.textContent = msg.content, !.isLiveUpdating = TRUE]
  ELSE IF msg.type \in {"GENERATION_COMPLETE", "GENERATION_ERROR"}
    THEN [d EXCEPT !.isLiveUpdating = FALSE]
  ELSE d

\* the next message is delivered to the DetailPage
DetailReceives ==
  /\ detail.phase = "listening"
  /\ detail.inbox # <<>>
  /\ detail' = [OnMessage(detail, Head(detail.inbox)) EXCEPT
                  !.inbox = Tail(detail.inbox)]
  /\ DetailUnchanged

Next ==
  \/ HandleGenerate
  \/ HandleStopGenerate
  \/ HandleContinueGenerate
  \/ Render
  \/ IdleSave
  \/ UpdateTimeout
  \/ \E r \in RunIds : FetchResponds(r)
  \/ \E r \in RunIds : ReadChunk(r)
  \/ \E r \in RunIds : StreamEnds(r)
  \/ \E r \in RunIds : TransportFails(r)
  \/ \E r \in RunIds : AbortRejects(r)
  \/ \E r \in RunIds : DelayedFinalSave(r)
  \/ \E r \in RunIds : CloseChannel(r)

Spec == Init /\ [][Next]_vars

\* One run of handleGenerate against a backend that sends any frames
ReadFrames(r) == ReadFrom(r, StreamEvents)

StartGeneration == nRuns = 0 /\ HandleGenerate

NextStream ==
  \/ StartGeneration
  \/ HandleStopGenerate
  \/ Render
  \/ IdleSave
  \/ UpdateTimeout
  \/ \E r \in RunIds : FetchResponds(r)
  \/ \E r \in RunIds : ReadFrames(r)
  \/ \E r \in RunIds : StreamEnds(r)
  \/ \E r \in RunIds : TransportFails(r)
  \/ \E r \in RunIds : AbortRejects(r)
  \/ \E r \in RunIds : DelayedFinalSave(r)
  \/ \E r \in RunIds : CloseChannel(r)

SpecStream == Init /\ [][NextStream]_vars

\* One run of handleGenerate against a backend that sends text
InitParse == \E text \in Bodies : InitText(NoSnapshot, text)

NextParse ==
  \/ StartGeneration
  \/ HandleStopGenerate
  \/ Render
  \/ IdleSave
  \/ UpdateTimeout
  \/ Tick
  \/ \E r \in RunIds : FetchResponds(r)
  \/ \E r \in RunIds : ReadBytes(r)
  \/ \E r \in RunIds : StreamEnds(r)
  \/ \E r \in RunIds : TransportFails(r)
  \/ \E r \in RunIds : AbortRejects(r)
  \/ \E r \in RunIds : DelayedFinalSave(r)
  \/ \E r \in RunIds : CloseChannel(r)

SpecParse == InitParse /\ [][NextParse]_vars

\* The page with navigation
NextNav == Next \/ Remount

\* what an earlier visit left in localStorage: every index completed
SavedResults == [i \in Indexes |-> [content |-> <<"s">>, isLoading |-> FALSE]]

\* a later visit
InitNav == InitWith(Snapshot(SavedResults))

SpecNav == InitNav /\ [][NextNav]_vars

\* One run of the page with a detail tab, after any earlier visit
\* a snapshot of another totalCount
StaleResults ==
  [i \in 0 .. totalCount |-> [content |-> <<"s">>, isLoading |-> FALSE]]

\* what the page can find in localStorage when it is mounted
StoredItems ==
  {NoSnapshot, Snapshot(SavedResults), Snapshot(StaleResults)}
    \cup {OtherText(t) : t \in OtherTexts}

InitDetail == \E st \in StoredItems : InitText(st, <<>>)

StartContinuation == nRuns = 0 /\ HandleContinueGenerate

NextDetail ==
  \/ StartGeneration
  \/ StartContinuation
  \/ HandleStopGenerate
  \/ Render
  \/ IdleSave
  \/ UpdateTimeout
  \/ \E i \in Indexes : HandleOpenDetail(i)
  \/ DetailRenders
  \/ DetailListens
  \/ DetailReceives
  \/ \E r \in RunIds : FetchResponds(r)
  \/ \E r \in RunIds : ReadChunk(r)
  \/ \E r \in RunIds : StreamEnds(r)
  \/ \E r \in RunIds : TransportFails(r)
  \/ \E r \in RunIds : AbortRejects(r)
  \/ \E r \in RunIds : DelayedFinalSave(r)
  \/ \E r \in RunIds : CloseChannel(r)

SpecDetail == InitDetail /\ [][NextDetail]_vars

\* the same, with the timers of a finished run firing: nothing clears the
\* 200 ms and 500 ms timeouts once they are set
SpecDetailTimers ==
  /\ SpecDetail
  /\ \A r \in RunIds : WF_vars(DelayedFinalSave(r))
  /\ \A r \in RunIds : WF_vars(CloseChannel(r))

\* One continuation of a restored page
NextContinue ==
  \/ StartContinuation
  \/ HandleStopGenerate
  \/ Render
  \/ IdleSave
  \/ UpdateTimeout
  \/ \E r \in RunIds : FetchResponds(r)
  \/ \E r \in RunIds : ReadChunk(r)
  \/ \E r \in RunIds : StreamEnds(r)
  \/ \E r \in RunIds : TransportFails(r)
  \/ \E r \in RunIds : AbortRejects(r)
  \/ \E r \in RunIds : DelayedFinalSave(r)
  \/ \E r \in RunIds : CloseChannel(r)

\* with what the browser does by itself: React renders the queued updates,
\* the idle callbacks and the timeouts run, and an aborted fetch or read
\* rejects. The network and the user are not fair.
SpecSettles ==
  /\ InitNav /\ [][NextContinue]_vars
  /\ WF_vars(Render)
  /\ WF_vars(IdleSave)
  /\ WF_vars(UpdateTimeout)
  /\ \A r \in RunIds : WF_vars(AbortRejects(r))
  /\ \A r \in RunIds : WF_vars(DelayedFinalSave(r))
  /\ \A r \in RunIds : WF_vars(CloseChannel(r))

\* The service called with any arguments: prompts and arrays of prompts,
\* counts given or left out, maxTokens given (0 included) or left out
MaxPrompts == 3
MaxCount == 3
Prompts == {<<>>, <<"p">>, <<"p", "q">>}
PromptArrays == UNION {[1 .. k -> {<<"a">>, <<"b">>}] : k \in 0 .. MaxPrompts}
Counts == (0 .. MaxCount) \cup {Undefined}
MaxTokensArgs == {Undefined, 0, 1200}

Calls3 ==
  {Call3(m, c, t) :
     m \in {StringMessage(p) : p \in Prompts}
            \cup {ArrayMessage(a) : a \in PromptArrays},
     c \in Counts,
     t \in MaxTokensArgs}

InitRequest == \E call \in Calls3 : InitCall(NoSnapshot, <<>>, call)

\* the call runs up to the fetch of _executeGeneration
BuildRequest ==
  /\ request.state = "called"
  /\ request' = [state |-> "built",
                 userMessage |-> request.userMessage,
                 count |-> request.count,
                 maxTokens |-> request.maxTokens,
                 sends |-> GenerateMultipleResponses(request.userMessage,
                                                     request.count,
                                                     request.maxTokens)]
  /\ UNCHANGED <<results, isGenerating, isContinuing, completedIndexes, queue,
                 mountId, resultsRef, globalIsGenerating, abortController,
                 abortControllerRef, updateBuffer, updateTimeoutRef, timerLive,
                 store, idleSaves, nRuns, runKind, owner, pc, aborted,
                 contentBuffers, contexts, delivered, channel, sent,
                 closeTimer, saveTimer, totalTokenCount, calls, partial, body,
                 pos, now, timerAge, elapsed, load, detail>>

NextRequest == BuildRequest

SpecRequest == InitRequest /\ [][NextRequest]_vars

\* One run of handleGenerate with navigation, as time passes
NextTimed ==
  \/ StartGeneration
  \/ HandleStopGenerate
  \/ Remount
  \/ Render
  \/ IdleSave
  \/ TimerExpires
  \/ TimePasses
  \/ \E r \in RunIds : FetchResponds(r)
  \/ \E r \in RunIds : ReadFrames(r)
  \/ \E r \in RunIds : StreamEnds(r)
  \/ \E r \in RunIds : TransportFails(r)
  \/ \E r \in RunIds : AbortRejects(r)
  \/ \E r \in RunIds : DelayedFinalSave(r)
  \/ \E r \in RunIds : CloseChannel(r)

SpecTimed == Init /\ [][NextTimed]_vars

TypeOK ==
  /\ DOMAIN results \in {{}, Indexes}
  /\ isGenerating \in BOOLEAN /\ isContinuing \in BOOLEAN
  /\ completedIndexes \subseteq Indexes
  /\ DOMAIN updateBuffer \subseteq Indexes
  /\ abortController \in RunIds \cup {NoRun}
  /\ abortControllerRef \in RunIds \cup {NoRun}
  /\ mountId \in MountIds
  /\ \A m \in MountIds :
       /\ updateTimeoutRef[m] \in RunIds \cup {NoRun}
       /\ timerLive[m] => (updateTimeoutRef[m] # NoRun
                            /\ owner[updateTimeoutRef[m]] = m)
  /\ nRuns \in 0 .. MaxRuns
  /\ Len(idleSaves) <= MaxIdleSaves

\* ================================================================ claims

\* the concatenation, in arrival order, of the deltas sent for index i
RECURSIVE DeltasOf(_, _)
DeltasOf(events, i) ==
  IF events = <<>> THEN <<>>
  ELSE (IF Head(events).index = i THEN Head(events).delta ELSE <<>>)
         \o DeltasOf(Tail(events), i)

\* C1: after the stream of a run has ended, the content buffer of every
\* index i in [0,N) is the concatenation, in arrival order, of exactly the
\* deltas the backend sent for index i in that run.
C1_BuffersAreConcatenation ==
  \A r \in RunIds :
    pc[r] = "completed" =>
      \A i \in Indexes : contentBuffers[r][i] = DeltasOf(delivered[r], i)

\* a run ended after "s" then "H" arrived for index 0
C1_Witness ==
  \E r \in RunIds :
    /\ pc[r] = "completed"
    /\ contentBuffers[r][0] = <<"s", "H">>

IsPrefix(p, str) == Len(p) <= Len(str) /\ SubSeq(str, 1, Len(p)) = p

\* the UPDATE_CONTENT messages posted on the channel of run r
UpdatesSent(r) ==
  {sent[r][k] : k \in {j \in 1 .. Len(sent[r]) : sent[r][j].type = "UPDATE_CONTENT"}}

\* C2: start generation is a full reset: while the run it started is the
\* latest run, the content of every index in the result state, in the
\* persisted snapshot and in every UPDATE_CONTENT message of the run is built
\* from the deltas of that run only (it is a prefix of the run's buffer).
C2_FullReset ==
  \A r \in RunIds :
    (r = nRuns /\ runKind[r] = "generate" /\ channel[r] = "open") =>
      /\ \A i \in DOMAIN results :
           IsPrefix(results[i].content, contentBuffers[r][i])
      /\ store.has =>
           \A i \in DOMAIN store.val :
             IsPrefix(store.val[i].content, contentBuffers[r][i])
      /\ \A m \in UpdatesSent(r) :
           IsPrefix(m.content, contentBuffers[r][m.index])

\* run r was cancelled by the stop button: it is the latest run and its
\* abort signal has fired (a superseded run is not the latest run)
Cancelled(r) == r = nRuns /\ aborted[r]

\* nothing is left to render or to save
Settled == ~queue.pending /\ idleSaves = <<>> /\ \A r \in RunIds : ~saveTimer[r]

AllLoaded(arr) == \A i \in DOMAIN arr : ~arr[i].isLoading

C3_State ==
  \A r \in RunIds :
    Cancelled(r) =>
      /\ AllLoaded(results)
      /\ Settled => (store.has /\ AllLoaded(store.val))

\* a step of the stop button that found a registered controller
StopStep == abortController # NoRun /\ abortController' = NoRun /\ pc' = pc

C3_Step ==
  /\ StopStep => \A r \in RunIds : Running(r) => aborted'[r]
  /\ \A r \in RunIds : aborted[r] => Len(delivered'[r]) <= Len(delivered[r])

\* C3: once the stop button cancelled the active run, no read delivers a
\* delta to that run any more, every index of the result state has
\* isLoading=false and, when the pending renders and saves have run, so has
\* every index of the persisted snapshot.
C3_CancelStopsReadsAndLoading == []C3_State /\ [][C3_Step]_vars

\* a run was cancelled after index 0 had received content, its abort was
\* handled and everything is saved; index 1 never received content
C3_Witness ==
  \E r \in RunIds :
    /\ Cancelled(r) /\ pc[r] = "aborted" /\ Settled
    /\ 0 \in DOMAIN updateBuffer /\ 1 \notin DOMAIN updateBuffer
    /\ results[1].content = <<>>

\* the runs whose transport is open and whose abort signal has not fired
LiveRuns == {r \in RunIds : Running(r) /\ ~aborted[r]}

\* C4: at most one run holds a live transport: when a run starts while the
\* transport of an earlier run is still open, the abort signal of the
\* earlier run has fired.  (Fails with navigation: a continuation started
\* by a new instance of the page does not abort the continuation that the
\* previous instance left running.)
C4_OneLiveTransport ==
  /\ Cardinality(LiveRuns) <= 1
  /\ \A r \in RunIds : (Running(r) /\ r < nRuns) => aborted[r]

\* the number of messages of a type posted on the channel of run r
Count(r, type) ==
  Cardinality({k \in 1 .. Len(sent[r]) : sent[r][k].type = type})

\* C5: a run ended by cancellation is not surfaced as a failure: it ends
\* without a GENERATION_ERROR message on its channel.  (Fails: the abort is
\* rethrown to the handler, whose catch block treats it as any other error.)
C5_AbortIsQuiet ==
  \A r \in RunIds : pc[r] = "aborted" => Count(r, "GENERATION_ERROR") = 0

C7_FailureFlushes ==
  \A r \in RunIds :
    (r = nRuns /\ pc[r] = "failed" /\ Settled /\ ~timerLive[mountId]) =>
      \A i \in DOMAIN updateBuffer :
        /\ i \in DOMAIN results /\ results[i].content = updateBuffer[i]
        /\ store.has /\ i \in DOMAIN store.val
        /\ store.val[i].content = updateBuffer[i]

SameContent(a, b) ==
  DOMAIN a = DOMAIN b /\ \A i \in DOMAIN a : a[i].content = b[i].content

\* the step in which run r fails
FailStep(r) == pc[r] # "failed" /\ pc'[r] = "failed"

\* C8: the handling of a failure leaves the content of every index of the
\* result state as it was: the rendered results are untouched and the
\* queued update changes isLoading flags only.
C8_FailureKeepsContent ==
  [][\A r \in RunIds :
       FailStep(r) => (results' = results
                       /\ SameContent(queue.results, queue'.results))]_vars

\* a generation failed while index 0 was showing flushed content, and the
\* content is still shown after the failure was rendered
C8_Witness ==
  \E r \in RunIds :
    /\ r = nRuns /\ pc[r] = "failed" /\ runKind[r] = "generate"
    /\ ~queue.pending
    /\ DOMAIN results = Indexes
    /\ results[0].content = contentBuffers[r][0]
    /\ results[0].content # <<>>

FinalContent(r, i) ==
  IF runKind[r] = "generate"
    THEN contentBuffers[r][i]
    ELSE contexts[r][i] \o <<Separator>> \o contentBuffers[r][i]

\* the positions of the messages of a type on the channel of run r
Positions(r, type) == {k \in 1 .. Len(sent[r]) : sent[r][k].type = type}

\* C10: when the stream of a run ended normally the run is completed:
\* exactly one GENERATION_COMPLETE is on its channel, and for every index
\* that received content the UPDATE_CONTENT with the final content is on
\* the channel before it and is the last UPDATE_CONTENT of that index; the
\* update buffer holds the final content, and once the latest run has
\* completed and everything is rendered and saved, the result state and
\* the persisted snapshot hold the buffer's content.
C10_CompletedRun ==
  \A r \in RunIds :
    pc[r] = "completed" =>
      /\ channel[r] = "open" =>
           /\ Count(r, "GENERATION_COMPLETE") = 1
           /\ Count(r, "GENERATION_ERROR") = 0
           /\ \A i \in Indexes :
                contentBuffers[r][i] # <<>> =>
                  /\ \E k \in Positions(r, "UPDATE_CONTENT") :
                       /\ sent[r][k] = UpdateContent(i, FinalContent(r, i))
                       /\ \A c \in Positions(r, "GENERATION_COMPLETE") : k < c
                  /\ r = nRuns =>
                       (i \in DOMAIN updateBuffer
                        /\ updateBuffer[i] = FinalContent(r, i))
      /\ (r = nRuns /\ Settled) =>
           \A i \in DOMAIN updateBuffer :
             /\ i \in DOMAIN results /\ results[i].content = updateBuffer[i]
             /\ ~results[i].isLoading
             /\ store.has /\ i \in DOMAIN store.val
             /\ store.val[i].content = updateBuffer[i]

\* a generation completed after 200 characters for index 0 and 100 for
\* index 1 (never flushed before the end); all is rendered and saved and
\* the channel is still open
C10_Witness ==
  \E r \in RunIds :
    /\ r = nRuns /\ pc[r] = "completed" /\ channel[r] = "open" /\ Settled
    /\ contentBuffers[r][0] # <<>> /\ contentBuffers[r][1] # <<>>
    /\ results[0].content = contentBuffers[r][0]
    /\ results[1].content = contentBuffers[r][1]
    /\ Count(r, "GENERATION_COMPLETE") = 1

\* ------------------------------------------------------- the SSE parser
\* the run has its locals: it has started and its channel is not closed
HasLocals(r) == pc[r] \in {"read", "completed", "failed", "aborted"}
                /\ channel[r] = "open"

\* a call without its token rate
Shape(call) == [index |-> call.index, content |-> call.content,
                isComplete |-> call.isComplete,
                totalTokens |-> call.totalTokens]

RECURSIVE Shapes(_)
Shapes(cs) == IF cs = <<>> THEN <<>> ELSE <<Shape(Head(cs))>> \o Shapes(Tail(cs))

\* the non-final calls of run r, without their token rates
ProgressCalls(r) == SelectSeq(Shapes(calls[r]), LAMBDA c : ~c.isComplete)

\* the final calls of run r, without their token rates
FinalCalls(r) == SelectSeq(Shapes(calls[r]), LAMBDA c : c.isComplete)

\* the calls that a sequence of choices asks for: one for every choice with
\* an index in [0, N) and a non-empty delta, carrying the grown content
RECURSIVE CallsFor(_, _, _)
CallsFor(events, bufs, total) ==
  IF events = <<>> THEN <<>>
  ELSE LET ev == Head(events)
       IN IF ev.index \in Indexes /\ ev.delta # <<>>
            THEN LET nb == [bufs EXCEPT ![ev.index] = @ \o ev.delta]
                     nt == total + StrLen(ev.delta)
                 IN <<[index |-> ev.index, content |-> nb[ev.index],
                       isComplete |-> FALSE, totalTokens |-> nt]>>
                    \o CallsFor(Tail(events), nb, nt)
            ELSE CallsFor(Tail(events), bufs, total)

\* the text delivered so far, whatever the chunks were
Seen == SubSeq(body, 1, pos)

\* C11: the parser's output does not depend on the chunk boundaries: after
\* any sequence of reads the carry-over, the choices handed to the choice
\* loop and the progress calls made are those of the delivered text read as
\* one chunk (every complete line once, in order).
C11_ChunkingIsInvisible ==
  \A r \in RunIds :
    HasLocals(r) =>
      /\ partial[r] = Split(Seen)[Len(Split(Seen))]
      /\ delivered[r] = LinesChoices(CompleteLines(Split(Seen)))
      /\ ProgressCalls(r) = CallsFor(delivered[r], EmptyContents, 0)

\* the first data line was applied and the chunk ended inside the document
\* of the second data line, which waits in the carry-over
C11_Witness ==
  \E r \in RunIds :
    /\ HasLocals(r) /\ pc[r] = "read"
    /\ body = <<"da", "ta: ", "{a", "a}", "n", "da", "ta: ", "{a", "a}", "n">>
    /\ partial[r] = <<"da", "ta: ", "{a">>
    /\ Len(calls[r]) = 1 /\ calls[r][1].totalTokens = 1
    /\ contentBuffers[r][0] = <<"s">>

\* what the lines of the protocol mean
DataA == <<"da", "ta: ", "{a", "a}">>
DataB == <<"da", "ta: ", " ", "{b", "b}", " ">>
Malformed == <<"da", "ta: ", "{a">>
DoneLine == <<"da", "ta: ", " ", "[DONE]", " ">>
EventLine == <<"ev", "ent: ", "{a", "a}">>

ExpectedChoices(line) ==
  IF line = DataA THEN <<Choice(0, <<"s">>)>>
  ELSE IF line = DataB
    THEN <<Choice(-1, <<"s">>), Choice(totalCount, <<"s">>),
           Choice(0, <<>>), Choice(1, <<"H">>)>>
  ELSE <<>>

RECURSIVE Expected(_)
Expected(lines) ==
  IF lines = <<>> THEN <<>>
  ELSE ExpectedChoices(Head(lines)) \o Expected(Tail(lines))

\* the complete lines delivered so far, without the lines in skip
SeenLinesWithout(skip) ==
  SelectSeq(CompleteLines(Split(Seen)), LAMBDA l : l \notin skip)

RECURSIVE SumLen(_)
SumLen(events) ==
  IF events = <<>> THEN 0
  ELSE (IF Head(events).index \in Indexes THEN StrLen(Head(events).delta) ELSE 0)
         + SumLen(Tail(events))

\* the state of run r is what the lines in `lines` alone produce
ProducedBy(r, lines) ==
  /\ delivered[r] = Expected(lines)
  /\ \A i \in Indexes : contentBuffers[r][i] = DeltasOf(Expected(lines), i)
  /\ totalTokenCount[r] = SumLen(Expected(lines))
  /\ ProgressCalls(r) = CallsFor(Expected(lines), EmptyContents, 0)

\* C12: a data line whose payload cannot be decoded is skipped and the run
\* goes on: the buffers, the token total and the calls are those of the
\* other lines, and the run can complete.
C12_MalformedLineSkipped ==
  \A r \in RunIds :
    HasLocals(r) =>
      ProducedBy(r, SeenLinesWithout({Malformed}))

\* a malformed line came first and a valid line after it; the valid line
\* was applied and the run completed
C12_Witness ==
  \E r \in RunIds :
    /\ pc[r] = "completed" /\ channel[r] = "open"
    /\ body = Malformed \o <<"n">> \o DataA \o <<"n">>
    /\ contentBuffers[r][0] = <<"s">>

\* C13: lines without the prefix `data: ` (empty lines among them) and
\* lines whose trimmed payload is [DONE] produce no delta, no call and no
\* error: the state of the run is what the other lines produce, also for
\* lines that follow them.
C13_OtherLinesIgnored ==
  \A r \in RunIds :
    HasLocals(r) =>
      ProducedBy(r, SeenLinesWithout({DoneLine, EventLine, <<>>}))

\* [DONE] and an event line came before a data line, which was applied
C13_Witness ==
  \E r \in RunIds :
    /\ HasLocals(r) /\ pc[r] = "read"
    /\ Seen \in {DoneLine \o <<"n">> \o DataA \o <<"n">>,
                  EventLine \o <<"n">> \o DataA \o <<"n">>}
    /\ contentBuffers[r][0] = <<"s">>

\* the choices of a sequence that the guard of the choice loop lets through
AppliedOf(events) ==
  SelectSeq(events, LAMBDA ev : ev.index \in Indexes /\ ev.delta # <<>>)

\* C14: a choice with an index outside [0, N) or with an empty (or missing)
\* delta changes no buffer and no token total and makes no call: buffers,
\* total and progress calls are those of the other choices, with exactly
\* one progress call per applied choice.
C14_InvalidChoicesIgnored ==
  \A r \in RunIds :
    HasLocals(r) =>
      /\ \A i \in Indexes :
           contentBuffers[r][i] = DeltasOf(AppliedOf(delivered[r]), i)
      /\ totalTokenCount[r] = SumLen(AppliedOf(delivered[r]))
      /\ Len(ProgressCalls(r)) = Len(AppliedOf(delivered[r]))
      /\ ProgressCalls(r) = CallsFor(AppliedOf(delivered[r]), EmptyContents, 0)

\* a choice that is not applied (index N, index -1 or an empty delta for
\* index 0) came before a valid choice: one call, for the valid one
C14_Witness ==
  \E r \in RunIds :
    /\ HasLocals(r) /\ Len(delivered[r]) = 2
    /\ delivered[r][1] \in {Choice(totalCount, <<"s">>), Choice(-1, <<"s">>),
                            Choice(0, <<>>)}
    /\ delivered[r][2] = Choice(0, <<"s">>)
    /\ Len(calls[r]) = 1 /\ totalTokenCount[r] = 1
    /\ contentBuffers[r][0] = <<"s">>

\* the progress calls of run r for index i, in the order they were made
ProgressCallsOf(r, i) == SelectSeq(ProgressCalls(r), LAMBDA c : c.index = i)

\* the applied choices of run r for index i, in the order they were parsed
AppliedTo(r, i) == SelectSeq(AppliedOf(delivered[r]), LAMBDA ev : ev.index = i)

\* C15: the progress calls for an index come in the order in which its
\* deltas were parsed, and the content of each is the content of the
\* previous call for that index (empty before the first) extended by the
\* delta it answers: the content only ever grows at its end.
C15_AppendOnlyCalls ==
  \A r \in RunIds :
    HasLocals(r) =>
      \A i \in Indexes :
        /\ Len(ProgressCallsOf(r, i)) = Len(AppliedTo(r, i))
        /\ \A k \in 1 .. Len(ProgressCallsOf(r, i)) :
             ProgressCallsOf(r, i)[k].content =
               (IF k = 1 THEN <<>> ELSE ProgressCallsOf(r, i)[k - 1].content)
                 \o AppliedTo(r, i)[k].delta

\* index 0 received "s" and then "H": two calls, "s" and "sH"
C15_Witness ==
  \E r \in RunIds :
    /\ HasLocals(r)
    /\ Len(ProgressCallsOf(r, 0)) = 2
    /\ ProgressCallsOf(r, 0)[1].content = <<"s">>
    /\ ProgressCallsOf(r, 0)[2].content = <<"s", "H">>

\* the final calls that the buffers ask for, from index i on
RECURSIVE FinalsFor(_, _, _)
FinalsFor(bufs, total, i) ==
  IF i >= totalCount THEN <<>>
  ELSE (IF bufs[i] # <<>>
          THEN <<[index |-> i, content |-> bufs[i], isComplete |-> TRUE,
                  totalTokens |-> total]>>
          ELSE <<>>)
         \o FinalsFor(bufs, total, i + 1)

\* C16: when the stream has ended normally, the final calls
\* (isComplete=true) are exactly one per index with a non-empty buffer,
\* with the full content of the index, none for an empty buffer, and all
\* of them come after every progress call; a run that has not ended
\* normally has made no final call.
C16_FinalCalls ==
  \A r \in RunIds :
    HasLocals(r) =>
      /\ pc[r] = "completed" =>
           /\ FinalCalls(r) = FinalsFor(contentBuffers[r], totalTokenCount[r], 0)
           /\ \A j, k \in 1 .. Len(calls[r]) :
                (calls[r][j].isComplete /\ ~calls[r][k].isComplete) => k < j
      /\ pc[r] # "completed" => FinalCalls(r) = <<>>

\* a run completed after deltas for index 0 only: one final call, for 0
C16_Witness ==
  \E r \in RunIds :
    /\ HasLocals(r) /\ pc[r] = "completed"
    /\ contentBuffers[r][0] = <<"s", "H">> /\ contentBuffers[r][1] = <<>>
    /\ Len(FinalCalls(r)) = 1 /\ FinalCalls(r)[1].index = 0
    /\ FinalCalls(r)[1].content = <<"s", "H">>
    /\ Len(calls[r]) = 3

RECURSIVE SumBuffers(_, _)
SumBuffers(bufs, i) ==
  IF i >= totalCount THEN 0 ELSE StrLen(bufs[i]) + SumBuffers(bufs, i + 1)

\* the number of progress calls among the first k calls of run r
ProgressCount(r, k) ==
  Cardinality({j \in 1 .. k : ~calls[r][j].isComplete})

C17_State ==
  \A r \in RunIds :
    HasLocals(r) =>
      /\ totalTokenCount[r] = SumBuffers(contentBuffers[r], 0)
      /\ \A k \in 1 .. Len(calls[r]) :
           /\ calls[r][k].tokenRate >= 0
           /\ calls[r][k].totalTokens =
                SumLen(SubSeq(AppliedOf(delivered[r]), 1,
                              IF calls[r][k].isComplete
                                THEN Len(AppliedOf(delivered[r]))
                                ELSE ProgressCount(r, k)))
           /\ \A j \in 1 .. k : calls[r][j].totalTokens <= calls[r][k].totalTokens

C17_Step ==
  \A r \in RunIds :
    now = 0 =>
      \A k \in (Len(calls[r]) + 1) .. Len(calls'[r]) : calls'[r][k].tokenRate = 0

\* C17: the token total of every call is the sum of the lengths of the
\* deltas applied up to that call (the running total is the sum of the
\* lengths of the N buffers) and never decreases from one call to the
\* next; the token rate of every call is >= 0, and it is 0 in every call
\* made when no time has elapsed since the start of the run.
C17_TokenTotals == []C17_State /\ [][C17_Step]_vars

\* a first call when no time had elapsed (rate 0) and a second one half a
\* second later (rate = twice the total)
C17_Witness ==
  \E r \in RunIds :
    /\ HasLocals(r) /\ Len(calls[r]) >= 2
    /\ calls[r][1].tokenRate = 0 /\ calls[r][1].totalTokens = 1
    /\ calls[r][2].totalTokens = 2
    /\ calls[r][2].tokenRate = 4

\* ------------------------------------------------------------ throttling
\* every entry of the update buffer has been handed over by a flush of
\* run r: posted on the channel and queued for the result state and the
\* snapshot (the owner of the run is mounted)
FlushedBy(r) ==
  \A i \in DOMAIN updateBuffer :
    /\ channel[r] = "open" =>
         \E k \in Positions(r, "UPDATE_CONTENT") :
           sent[r][k] = UpdateContent(i, updateBuffer[i])
    /\ owner[r] = mountId =>
         /\ queue.pending
         /\ i \in DOMAIN queue.results
         /\ queue.results[i].content = updateBuffer[i]
         /\ ~queue.results[i].isLoading
         /\ queue.store = Snapshot(queue.results)

NoTimer(r) == ~timerLive[owner[r]] /\ updateTimeoutRef[owner[r]] = NoRun

\* the step in which run r handles a read whose last choice is for index i
LastUpdate(r, i) ==
  /\ Len(delivered'[r]) > Len(delivered[r])
  /\ delivered'[r][Len(delivered'[r])].index = i

C18_Step ==
  \A r \in RunIds :
    /\ \A i \in Indexes :
         LastUpdate(r, i) =>
           IF StrLen(contentBuffers'[r][i]) > LongThreshold
             THEN FlushedBy(r)' /\ NoTimer(r)'
             ELSE timerLive'[owner[r]] /\ updateTimeoutRef'[owner[r]] = r
    /\ (pc[r] = "read" /\ pc'[r] = "completed"
           /\ contentBuffers'[r] # EmptyContents) =>
         FlushedBy(r)' /\ NoTimer(r)'

\* C18: when the last update handled by a callback has more than 100
\* characters for its index (run content; 100 itself does not count) or is
\* a final update, then right after it every entry of the update buffer
\* has been flushed and no throttle timer is pending; an update of at most
\* 100 characters leaves the timer pending instead.
C18_LongOrFinalFlushes == [][C18_Step]_vars

\* the second 100 characters of index 0 arrived while the timer of the
\* first 100 was pending: flushed, no timer
C18_Witness ==
  \E r \in RunIds :
    /\ pc[r] = "read" /\ delivered[r] = <<Choice(0, <<"H">>), Choice(0, <<"H">>)>>
    /\ FlushedBy(r) /\ NoTimer(r)
    /\ updateBuffer[0] = <<"H", "H">>

\* C19: a short update that was not flushed keeps its throttle timer
\* until the timer fires: while the run is active and an entry of the
\* update buffer has not been posted, the timer named by updateTimeoutRef
\* is scheduled.  (Fails: every progress callback updates the token
\* counters, and the cleanup effect of the render that follows clears the
\* timer.)
C19_TimerSurvives ==
  \A r \in RunIds :
    (pc[r] = "read" /\ ~aborted[r] /\ abortController = r
       /\ owner[r] = mountId /\ updateTimeoutRef[mountId] = r
       /\ \E i \in DOMAIN updateBuffer :
            \A k \in Positions(r, "UPDATE_CONTENT") :
              sent[r][k] # UpdateContent(i, updateBuffer[i]))
      => timerLive[mountId]

\* the step in which the throttle timer of instance m fires
TimerFlush(m) ==
  /\ timerLive[m] /\ ~timerLive'[m]
  /\ updateTimeoutRef'[m] = updateTimeoutRef[m]
  /\ mountId' = mountId /\ pc' = pc /\ delivered' = delivered
  /\ ~(queue.pending /\ ~queue'.pending)

C20_Step ==
  \A m \in MountIds :
    TimerFlush(m) =>
      /\ elapsed.update = TimerDelay
      /\ elapsed.flush = TimerDelay
      /\ elapsed'.flush = 0

\* C20: a flush made by the throttle timer comes at least 300 ms after the
\* last update (every short update restarts the one timer) and at least
\* 300 ms after the last flush of any kind, so two flushes are less than
\* 300 ms apart only when the later one is forced by a long or final
\* update.
C20_ThrottleWindow == [][C20_Step]_vars

\* the timer of a run whose page was left has just flushed a short update
C20_Witness ==
  \E r \in RunIds :
    /\ pc[r] = "read" /\ owner[r] # mountId
    /\ Len(delivered[r]) = 2
    /\ updateTimeoutRef[owner[r]] = r /\ ~timerLive[owner[r]]
    /\ elapsed.flush = 0 /\ elapsed.update = TimerDelay
    /\ \E k \in Positions(r, "UPDATE_CONTENT") :
         sent[r][k] = UpdateContent(0, <<"s", "s">>)

\* ------------------------------------------------------ the update buffer
C21_State ==
  \A r \in RunIds :
    (r = nRuns /\ HasLocals(r)) =>
      \A i \in Indexes :
        contentBuffers[r][i] # <<>> =>
          /\ i \in DOMAIN updateBuffer
          /\ updateBuffer[i] = FinalContent(r, i)

C21_Step ==
  \A i \in DOMAIN updateBuffer :
    /\ i \in DOMAIN updateBuffer'
    /\ IsPrefix(updateBuffer[i], updateBuffer'[i])
         \/ nRuns' # nRuns \/ delivered' # delivered

\* C21: no step, and so no flush, removes an entry of the update buffer,
\* and an entry changes only when a run delivers an update; during the
\* latest run the buffer maps every index that received content in the
\* run to its latest content, flushed or not.
C21_BufferKept == []C21_State /\ [][C21_Step]_vars

\* the timer flushed the first update of index 0, then index 1 received
\* its first update: the buffer holds both, only index 0 was posted
C21_Witness ==
  \E r \in RunIds :
    /\ pc[r] = "read" /\ runKind[r] = "generate"
    /\ delivered[r] = <<Choice(0, <<"H">>), Choice(1, <<"H">>)>>
    /\ updateBuffer = [i \in Indexes |-> <<"H">>]
    /\ \E k \in Positions(r, "UPDATE_CONTENT") :
         sent[r][k] = UpdateContent(0, <<"H">>)
    /\ \A k \in Positions(r, "UPDATE_CONTENT") : sent[r][k].index = 0

\* what a callback record leaves in the result state and in localStorage:
\* now, and once its setResults updaters have run
Persisted(c) ==
  [results |-> c.queue.results,
   store |-> c.store,
   saved |-> IF c.queue.store.has THEN c.queue.store ELSE c.store]

\* the flush of an update of run r that is long or final
ForcedFlush(c, r) == Schedule(c, r, <<>>, TRUE)

\* C22: in every state of a run, whichever of the timer-driven and the
\* update-driven flush runs first, a second flush of the same update
\* buffer leaves the result state and the persisted snapshot as the first
\* flush left them.
C22_FlushIdempotent ==
  \A r \in RunIds :
    HasLocals(r) =>
      LET timer == TimerBody(Cb(r), r)
          forced == ForcedFlush(Cb(r), r)
      IN /\ Persisted(TimerBody(timer, r)) = Persisted(timer)
         /\ Persisted(ForcedFlush(timer, r)) = Persisted(timer)
         /\ Persisted(TimerBody(forced, r)) = Persisted(forced)
         /\ Persisted(ForcedFlush(forced, r)) = Persisted(forced)

\* a long update of index 0 forced a flush and the final callback flushed
\* the same buffer again: result state and saved snapshot hold the content
C22_Witness ==
  \E r \in RunIds :
    /\ pc[r] = "completed" /\ channel[r] = "open" /\ owner[r] = mountId
    /\ Len(calls[r]) = 3
    /\ calls[r][2].content = <<"H", "H">> /\ ~calls[r][2].isComplete
    /\ calls[r][3].content = <<"H", "H">> /\ calls[r][3].isComplete
    /\ updateBuffer = (0 :> <<"H", "H">>)
    /\ queue.results[0].content = <<"H", "H">>
    /\ queue.store = Snapshot(queue.results)

\* ------------------------------------------------------------ the snapshot
\* C23: whatever text localStorage holds, the initializers of the page
\* return the saved results or the empty value and do not throw.  (Fails:
\* JSON.parse and the reads that follow it are unguarded in the two
\* initializers of ChatPage; the initializer of the detail page guards
\* them and falls back to the default text.)
C23_LoadFailsSoft == load \in {"empty", "restored", "removed"}

C24_State ==
  /\ DOMAIN results \in {{}, Indexes}
  /\ (store.has /\ store.text = "array") => DOMAIN store.val = Indexes
  /\ (load = "removed" /\ nRuns = 0) =>
       /\ results = EmptyResults /\ queue.results = EmptyResults
       /\ completedIndexes = {}
       /\ ~store.has

C24_Step ==
  (nRuns' # nRuns /\ runKind'[nRuns'] = "generate") =>
    /\ results' = Placeholders
    /\ ~store'.has

\* C24: a saved array whose length is not totalCount is removed when the
\* page is mounted and the page starts with no results; start generation
\* removes whatever is saved and starts from the placeholders; so neither
\* the results nor the saved snapshot ever have another length.
C24_StaleSnapshotDiscarded == []C24_State /\ [][C24_Step]_vars

\* the page found a snapshot of another length, then a generation began
C24_Witness ==
  /\ load = "removed" /\ nRuns = 1 /\ pc[1] = "fetch"
  /\ results = Placeholders /\ ~store.has

\* ------------------------------------------------------- the detail page
\* the step of handleOpenDetail for index i
Opens(i) == detail.phase = "closed" /\ detail'.phase = "opening"
            /\ detail'.index = i

C25_Step ==
  \A i \in Indexes :
    Opens(i) =>
      /\ ~results[i].isLoading
      /\ store'.has /\ store'.text = "array"
      /\ DOMAIN store'.val = DOMAIN results
      /\ \A j \in DOMAIN results :
           IF j \in DOMAIN updateBuffer /\ updateBuffer[j] # <<>>
             THEN store'.val[j] = [content |-> updateBuffer[j],
                                   isLoading |-> FALSE]
             ELSE store'.val[j] = results[j]

\* C25: in the step in which handleOpenDetail opens the detail tab for an
\* index that is not loading, and before the tab has rendered, the saved
\* snapshot has the buffered content with isLoading=false for every index
\* whose buffered content is not empty, and the entry of the rendered
\* results for every other index.
C25_ForcedSave == [][C25_Step]_vars

\* the detail tab of index 0 was opened while index 1 had buffered content
\* that no flush had put into the results
C25_Witness ==
  /\ detail.phase = "opening" /\ detail.index = 0
  /\ \E r \in RunIds : pc[r] = "read"
  /\ updateBuffer = [i \in Indexes |-> <<"H">>]
  /\ results[1].content = <<>> /\ queue.results[1].content = <<>>
  /\ store.has /\ store.val[1] = [content |-> <<"H">>, isLoading |-> FALSE]

\* ------------------------------------------------------ the end of a run
Terminated(r) == pc[r] \in {"completed", "failed"}

Terminals(r) == Count(r, "GENERATION_COMPLETE") + Count(r, "GENERATION_ERROR")

C26_State ==
  \A r \in RunIds :
    Terminated(r) =>
      \/ /\ channel[r] = "open" /\ closeTimer[r]
         /\ Terminals(r) = 1
         /\ Count(r, IF pc[r] = "completed" THEN "GENERATION_COMPLETE"
                                            ELSE "GENERATION_ERROR") = 1
      \/ channel[r] = "closed" /\ ~closeTimer[r]

C26_Step ==
  \A r \in RunIds :
    /\ (channel[r] = "open" /\ channel'[r] # "open") =>
         /\ channel'[r] = "closed"
         /\ closeTimer[r] /\ ~closeTimer'[r] /\ ~saveTimer[r]
         /\ Terminals(r) = 1
    /\ channel[r] = "closed" => channel'[r] = "closed"

C26_Closes == \A r \in RunIds : Terminated(r) ~> (channel[r] = "closed")

\* C26: a run that completed or failed has posted exactly one terminal
\* message, of its outcome, and has set the timer that closes the channel; the channel is closed once, by that timer, after the
\* terminal message and after the 200 ms timer, and it is closed in the end.
C26_TerminalThenClose == []C26_State /\ [][C26_Step]_vars /\ C26_Closes

\* a continuation failed: its channel was closed by the timer
C26_Witness ==
  \E r \in RunIds :
    /\ pc[r] = "failed" /\ runKind[r] = "continue"
    /\ channel[r] = "closed" /\ ~closeTimer[r]

\* ---------------------------------------------------------- continuation
\* the context of index i in run r, followed by the separator and by some
\* of the text the run has received for i so far
Continued(r, i, text) ==
  \E n \in 1 .. Len(contentBuffers[r][i]) :
    text = contexts[r][i] \o <<Separator>> \o SubSeq(contentBuffers[r][i], 1, n)

C27_Continuation ==
  \A r \in RunIds :
    (r = nRuns /\ runKind[r] = "continue" /\ HasLocals(r)) =>
      \A i \in Indexes :
        contentBuffers[r][i] # <<>> =>
          /\ updateBuffer[i] = contexts[r][i] \o <<Separator>>
                                  \o contentBuffers[r][i]
          /\ \A k \in Positions(r, "UPDATE_CONTENT") :
               sent[r][k].index = i =>
                 \/ sent[r][k].content = contexts[r][i]
                 \/ Continued(r, i, sent[r][k].content)
          /\ \A text \in {results[i].content, queue.results[i].content}
                         \cup (IF queue.store.has
                                 THEN {queue.store.val[i].content} ELSE {}) :
               text = contexts[r][i] \/ Continued(r, i, text)
          /\ (pc[r] = "completed" /\ Settled) =>
               /\ store.has
               /\ store.val[i].content = updateBuffer[i]
               /\ results[i].content = updateBuffer[i]

\* C27: in the latest run, when it is a continuation, for every index that
\* received text: the buffered content is the context, the separator and
\* all the text received; the content broadcast, in the results and in the
\* snapshot that a flush saves is either still the context (from before the
\* index received text) or the context, the separator and text received so
\* far, and the saved snapshot holds the buffered content once the run has
\* completed and all is saved.
C27_ContextKept == C27_Continuation

\* a continuation completed after 100 characters for index 0, all saved
C27_Witness ==
  \E r \in RunIds :
    /\ r = nRuns /\ runKind[r] = "continue" /\ pc[r] = "completed"
    /\ HasLocals(r) /\ Settled
    /\ contexts[r][0] # <<>> /\ contentBuffers[r][0] = <<"H">>
    /\ store.val[0].content = contexts[r][0] \o <<Separator, "H">>

\* text is content of index i in run r: the beginning of what the callback
\* of the run has built for the index
RunContent(r, i, text) == text # <<>> /\ IsPrefix(text, FinalContent(r, i))

C28_Step ==
  \A r \in RunIds :
    (/\ r = nRuns /\ HasLocals(r)
     /\ detail.phase = "listening"
     /\ detail'.textContent # detail.textContent
     /\ RunContent(r, detail.index, detail.textContent)) =>
       /\ IsPrefix(detail.textContent, detail'.textContent)
       /\ RunContent(r, detail.index, detail'.textContent)

FinalIndexes(r) ==
  {i \in Indexes : \E k \in 1 .. Len(calls[r]) :
                     calls[r][k].index = i /\ calls[r][k].isComplete}

\* run r is the run of the mounted page, running or just completed
Tracked(r) ==
  /\ r = nRuns /\ owner[r] = mountId
  /\ Running(r) \/ (pc[r] = "completed" /\ closeTimer[r])

\* C29: from the start of a run, by start generation or by continue
\* generation, the set of completed indexes (with the updates the handlers
\* have queued) holds exactly the indexes that received a final callback in
\* that run: it is empty until the final callbacks of the run.
C29_CompletionTracking ==
  \A r \in RunIds : Tracked(r) => queue.completedIndexes = FinalIndexes(r)

\* the same for the runs of handleGenerate alone, which queues an empty set
C29_GenerateOnly ==
  \A r \in RunIds :
    (Tracked(r) /\ runKind[r] = "generate") =>
      queue.completedIndexes = FinalIndexes(r)

\* the detail page is being handed the message at the head of its inbox
Delivers(msg) ==
  /\ detail.phase = "listening" /\ detail.inbox # <<>>
  /\ msg = Head(detail.inbox)
  /\ detail'.inbox = Tail(detail.inbox)

C30_Step ==
  /\ \A msg \in {GenerationComplete, GenerationError} :
       Delivers(msg) => ~detail'.isLiveUpdating
  /\ (~detail.isLiveUpdating /\ detail'.isLiveUpdating) =>
       /\ detail.inbox # <<>> /\ Delivers(Head(detail.inbox))
       /\ Head(detail.inbox).type = "UPDATE_CONTENT"
       /\ Head(detail.inbox).index = detail.index

\* C30: when a GENERATION_COMPLETE or GENERATION_ERROR message, as the page
\* posted it, is delivered to a listening detail page, the live-updating
\* indicator of the detail page is false afterwards, and it becomes true
\* again only by an UPDATE_CONTENT message for the index of the detail page.
C30_TerminalStopsLive == [][C30_Step]_vars

\* ------------------------------------------------------------ superseding
\* run r was replaced by a later run of handleGenerate that is under way
Superseded(r) ==
  /\ r < nRuns /\ runKind[nRuns] = "generate"
  /\ Running(nRuns) /\ ~aborted[nRuns]

\* the step is one of run r: its handler goes on, or one of its delayed
\* callbacks runs
StepOf(r) ==
  \/ pc'[r] # pc[r]
  \/ closeTimer'[r] # closeTimer[r]
  \/ saveTimer'[r] # saveTimer[r]

C31_Step ==
  \A r \in RunIds :
    (Superseded(r) /\ StepOf(r)) =>
      /\ queue'.results = queue.results
      /\ results' = results

\* C31: while a run of start generation that replaced run r is under way,
\* no step of run r (its abort handler, its delayed callbacks) changes the
\* results: the entries of the new run keep their content and isLoading.
C31_SupersededIsQuiet == [][C31_Step]_vars

\* run r leaves its handler in this step (return or exception)
Leaves(r) == Running(r) /\ ~Running(r)'

C32_Step ==
  \A r \in RunIds :
    Leaves(r) =>
      IF abortController = r
        THEN /\ abortController' = NoRun
             /\ owner[r] = mountId =>
                  /\ abortControllerRef' = NoRun
                  /\ runKind[r] = "generate" => ~queue'.isGenerating
                  /\ runKind[r] = "continue" => ~queue'.isContinuing
        ELSE /\ abortController' = abortController
             /\ abortControllerRef' = abortControllerRef
             /\ queue'.isGenerating = queue.isGenerating
             /\ queue'.isContinuing = queue.isContinuing
             /\ globalIsGenerating' = globalIsGenerating

\* C32: when a run leaves its handler, the generating (or continuing) flag
\* and the active abort controller are cleared if the controller of the run
\* is still the registered one, and are all left as they are otherwise: a
\* replaced run never clears the flag or the controller of its successor.
C32_OwnControllerOnly == [][C32_Step]_vars

\* run 1 was replaced while in flight and has ended by AbortError; run 2
\* still holds the controller and the generating flag
C32_Witness ==
  /\ nRuns = 2 /\ pc[1] = "aborted" /\ Running(2)
  /\ runKind[2] = "generate"
  /\ abortController = 2 /\ abortControllerRef = 2
  /\ queue.isGenerating /\ globalIsGenerating

\* the stop button was used while continuation r, the latest run, was
\* under way
StoppedContinuation(r) ==
  /\ r = nRuns /\ runKind[r] = "continue"
  /\ aborted[r] /\ abortController = NoRun

\* the page shows neither flag, or the user has started another run
IdleAgain(r) == (~isGenerating /\ ~isContinuing) \/ nRuns # r

\* C33: after the stop button was used while a continuation was under way,
\* the page eventually shows neither isGenerating nor isContinuing, so that
\* a run can be started again.
C33_CancelEndsContinuation ==
  \A r \in RunIds : StoppedContinuation(r) ~> IdleAgain(r)

\* run r of start generation has completed, the page has rendered, and its
\* delayed final save and the backup saves have run
CompletedAndSaved(r) ==
  /\ r = nRuns /\ runKind[r] = "generate" /\ owner[r] = mountId
  /\ pc[r] = "completed" /\ Settled

\* C34: once a run of start generation has completed and its final flush
\* and delayed final save have run, no entry is isLoading in the results
\* or in the saved snapshot, whether or not its index received content.
C34_NothingLoadingAfterCompletion ==
  \A r \in RunIds :
    CompletedAndSaved(r) =>
      /\ AllLoaded(results)
      /\ store.has /\ AllLoaded(store.val)

\* ------------------------------------------------ after the terminal message
C35_Step ==
  /\ \A r \in RunIds :
       Terminals(r) >= 1 => sent'[r] \in {sent[r], <<>>}
  /\ \A m \in MountIds :
       (TimerFires(m) /\ DOMAIN updateBuffer # {}) =>
         channel[updateTimeoutRef[m]] = "open"

\* C35: once GENERATION_COMPLETE or GENERATION_ERROR is on the channel of a
\* run, nothing more is posted on it (the log of the channel only changes
\* by being dropped when the channel closes), and the throttle timer of a
\* run never comes to post the buffer on a channel that has been closed.
C35_TerminalIsLast == [][C35_Step]_vars

\* ------------------------------------------------- the delayed final save
\* the saved snapshot holds, for every index, content of run r and no
\* entry marked as loaded that run r has not filled
SnapshotOf(r, st) ==
  st.has =>
    \A i \in Indexes :
      /\ IsPrefix(st.val[i].content, FinalContent(r, i))
      /\ (runKind[r] = "generate" /\ contentBuffers[r][i] = <<>>) =>
           st.val[i].isLoading

C36_Step ==
  \A r \in RunIds :
    (saveTimer[r] /\ ~saveTimer'[r] /\ r < nRuns /\ Running(nRuns)) =>
      SnapshotOf(nRuns, store')

\* C36: when the delayed final save of a completed run fires after a later
\* run has started, what it leaves in the saved snapshot is content of the
\* later run: no entry holds the content or the isLoading flag that the
\* completed run had for it.
C36_LateSaveKeepsNewRun == [][C36_Step]_vars

\* ------------------------------------------------------- the end of stream
\* C37: when the server has closed the stream and the run has completed,
\* the content of every index is what the data lines of the whole body
\* produce, the last line included when no line feed ends it.
C37_LastLineApplied ==
  \A r \in RunIds :
    (pc[r] = "completed" /\ HasLocals(r) /\ pos = Len(body)) =>
      \A i \in Indexes :
        contentBuffers[r][i] = DeltasOf(Expected(Split(body)), i)

\* ------------------------------------------------ the process-wide flag
\* a run of start generation holds the registered controller and is under
\* way
LiveGeneration ==
  \E r \in RunIds :
    runKind[r] = "generate" /\ Running(r) /\ abortController = r

\* the latest run was one of start generation and has ended, and no run
\* is under way
GenerationOver ==
  /\ nRuns >= 1 /\ runKind[nRuns] = "generate"
  /\ \A r \in RunIds : ~Running(r)

\* C38: once the page has rendered everything that was queued, the flag
\* kept in window.__chatPageGlobalState is true while a run of start
\* generation holds the live transport, and false when that run has ended.
C38_GlobalFlagAgrees ==
  ~queue.pending =>
    /\ LiveGeneration => globalIsGenerating
    /\ GenerationOver => ~globalIsGenerating

\* the second half of C38 alone: false once the run has ended
C38_FalseWhenOver == (~queue.pending /\ GenerationOver) => ~globalIsGenerating

\* ------------------------------------------------------ the loading flag
\* an entry that is loading has no content
LoadingIsEmpty(arr) ==
  \A i \in DOMAIN arr : arr[i].isLoading => arr[i].content = <<>>

\* some entry that was loaded is loading again
LoadingAgain(old, new) ==
  \E i \in (DOMAIN old) \cap (DOMAIN new) : ~old[i].isLoading /\ new[i].isLoading

C39_State ==
  (nRuns >= 1 /\ runKind[nRuns] = "generate") =>
    LoadingIsEmpty(results) /\ LoadingIsEmpty(queue.results)

C39_Step ==
  (LoadingAgain(results, results') \/ LoadingAgain(queue.results, queue'.results))
    => (nRuns' = nRuns + 1 /\ runKind'[nRuns'] = "generate")

\* C39: while the latest run is one of start generation, an entry of the
\* results (rendered or queued) that is loading has empty content; and an
\* entry that is loaded becomes loading again only by the next start
\* generation.
C39_LoadingFlag == []C39_State /\ [][C39_Step]_vars

\* run 2, started by start generation after run 1 had filled both entries,
\* has filled entry 0 and not yet entry 1
C39_Witness ==
  /\ nRuns = 2 /\ runKind[2] = "generate" /\ pc[2] = "read"
  /\ pc[1] = "completed"
  /\ ~results[0].isLoading /\ results[0].content # <<>>
  /\ results[1].isLoading /\ results[1].content = <<>>

\* ------------------------------------------------------------ the request
\* the number of streams the call demultiplexes
Streams(sends) == Cardinality(DOMAIN sends.contentBuffers)

C40_Request ==
  request.state = "built" =>
    LET m == request.userMessage
        sends == request.sends
    IN /\ (~m.isArray /\ request.count # Undefined) =>
            /\ Len(sends.contents) = request.count
            /\ \A k \in 1 .. Len(sends.contents) :
                 sends.contents[k] = PromptTemplate(m.val[1])
            /\ Streams(sends) = request.count
            /\ request.maxTokens = Undefined =>
                 sends.max_tokens = PromptMaxTokens
       /\ m.isArray =>
            /\ sends.contents = m.val
            /\ Streams(sends) = Len(m.val)
            /\ request.maxTokens = Undefined =>
                 sends.max_tokens = ArrayMaxTokens
       /\ request.maxTokens # Undefined =>
            sends.max_tokens = request.maxTokens

\* C40: the request has one prompt per stream. For a prompt string and a
\* count N, contents holds N copies of the prompt built from the string,
\* N streams are demultiplexed and max_tokens is 800 when none is given;
\* for an array of M prompts, contents is the array, M streams are
\* demultiplexed whatever the count, and max_tokens is 4000 when none is
\* given; a maxTokens that is given (0 included) is the one sent.
C40_OnePromptPerStream == C40_Request

\* an array of two prompts with count 3 and no maxTokens: two streams
C40_Witness ==
  /\ request.state = "built"
  /\ request.userMessage = ArrayMessage(<<<<"a">>, <<"b">>>>)
  /\ request.count = 3 /\ request.maxTokens = Undefined
  /\ request.sends.contents = <<<<"a">>, <<"b">>>>
  /\ Streams(request.sends) = 2
  /\ request.sends.max_tokens = ArrayMaxTokens

====
